---- MODULE Spec2Model ----
(***************************************************************************)
(* A model of FinaleToolkit's fragmentation features: the Windowed         *)
(* Protection Score engine (frag/__init__.py), the DELFI scorer            *)
(* (frag/delfi.py), the end-motif analyzer (frag/end_motifs.py) and the    *)
(* gap model (genome/gaps.py).                                             *)
(* Every function of the source is an operator computed                    *)
(* the way the source computes it; every entry point is an action (or a    *)
(* few actions, one per step of its worker pool).                          *)
(***************************************************************************)
EXTENDS Integers, Sequences, FiniteSets, TLC

(***************************************************************************)
(* Bounds of the model.                                                    *)
(***************************************************************************)
\* largest coordinate of a WPS region and of a fragment end
MaxCoord == 3
\* largest window_size handed to wps
MaxWindow == 3
\* largest number of fragments in the alignment file of the WPS model
MaxFrags == 2

\* largest number of site lines in the BED file of aggregate_wps
MaxSites == 2
\* largest size_around_sites
MaxSize == 3
\* largest number of pool workers
MaxWorkers == 2

\* largest number of reads the fetch of one DELFI window yields
MaxReads == 2
\* largest number of lines of a blacklist or centromere file
MaxRegions == 1

\* largest number of bins handed to trim_coverage
MaxBins == 3
\* largest num_frags of a bin handed to trim_coverage
MaxNumFrags == 2

\* largest number of contigs in the autosomes file
MaxContigs == 2
\* largest contig length, in units of 500 bases
MaxContigUnits == 6

\* largest k of the end-motif model
MaxK == 2
\* largest number of contigs in the 2bit reference of end_motifs
MaxEmContigs == 1
\* largest contig length of the 2bit reference, in units of 500,000 bases
MaxEmUnits == 4
\* largest number of (kmer, frequency) pairs handed to EndMotifFreqs
MaxPairs == 2
\* largest coordinate of the gap model, in units of 50 bases
MaxGapUnits == 6
\* longest string handed to _reverse_complement
MaxKmerLen == 4
\* largest number of fragments in the alignment file of region_end_motifs
MaxRemFrags == 2

VARIABLES
    \* ---- wps(input_file, contig, start, stop, output_file, window_size, ...)
    wps_pc,          \* "called", "returned", "ValueError", "TypeError"
    wps_input,       \* the fragments of input_file on contig: Seq(<<start, stop>>)
    wps_start,
    wps_stop,
    wps_window_size,
    wps_fraction,    \* <<fraction_low, fraction_high>>
    wps_output_file, \* None, a suffix, or a non-string
    wps_frag_ends,   \* what frag_array returned
    wps_scores,      \* the returned array: Seq(<<position, score>>)
    wps_out          \* the file written: [span |-> n, lines |-> Seq(score)] or None

VARIABLES
    \* ---- aggregate_wps(input_file, site_bed, output_file, window_size,
    \*                    size_around_sites, ..., workers)
    agg_pc,          \* "called", "pool", "returned", or the exception raised
    agg_input,       \* the fragments of input_file: Seq(<<start, stop>>)
    agg_site_bed,    \* the lines of site_bed: Seq([contig, start, strand])
    agg_size_around_sites,
    agg_window_size,
    agg_fraction,    \* <<fraction_low, fraction_high>>
    agg_workers,
    agg_output_file,
    agg_jobs,        \* the pool's tasks, one per site: "queued", "running", "done"
    agg_contig_scores, \* starmap's result list, filled as the tasks complete
    agg_done_order,  \* the order in which the tasks completed (history)
    agg_scores,      \* the returned array: Seq(<<position, score>>)
    agg_out          \* the file written, or None

VARIABLES
    \* ---- _delfi_single_window(input_file, reference_file, contig,
    \*          window_start, window_stop, blacklist_file, centromere_file, ...)
    dw_pc,             \* "called", "reading", "returned"
    dw_window,         \* <<window_start, window_stop>>
    dw_blacklist_file, \* NoFile or a file of lines [contig, start, stop]
    dw_centromere_file,
    dw_reference,      \* the 2bit reference
    dw_blacklist_regions,
    dw_centromeres,
    dw_acc,            \* [short_lengths, long_lengths, frag_pos, num_frags]
    dw_read1,          \* the read of the current iteration of the fetch loop
    dw_fetched,        \* how many reads fetch has yielded
    dw_result          \* the returned tuple

VARIABLES
    \* ---- trim_coverage(window_data, trim_percentile)
    trim_pc,           \* "called", "returned"
    trim_window_data,  \* the caller's array: Seq of rows
    trim_percentile,
    trim_trimmed       \* the returned array

VARIABLES
    \* ---- delfi(input_file, autosomes, reference_file, blacklist_file,
    \*            centromere_file, output_file, window_size, ..., workers)
    delfi_pc,          \* "called", "pool", "returned", or the exception raised
    delfi_input,       \* the reads of input_file: Seq(<<contig, read>>)
    delfi_autosomes,   \* the lines of the autosomes file: Seq(<<contig, size>>)
    delfi_reference,
    delfi_blacklist_file,
    delfi_centromere_file,
    delfi_output_file,
    delfi_window_size,
    delfi_workers,
    delfi_window_args, \* Seq(<<contig, start, stop>>), one per bin
    delfi_jobs,        \* the pool's tasks: "queued", "running", "done"
    delfi_windows,     \* starmap's result list
    delfi_trimmed,     \* trimmed_windows
    delfi_out,         \* the file written
    delfi_num_frags    \* the total that is reported when verbose

VARIABLES
    \* ---- _reverse_complement(kmer)
    rc_pc,             \* "called", "once", "twice", "KeyError"
    rc_kmer,           \* the argument of the first call
    rc_value           \* the value returned by the last call

VARIABLES
    \* ---- region_end_motifs(input_file, contig, start, stop, refseq_file, k, ...)
    rem_pc,            \* "called", "counting", "returned"
    rem_input,         \* the fragments of input_file: Seq(<<contig, start, stop>>)
    rem_window,        \* <<start, stop>>
    rem_refseq,        \* the 2bit reference
    rem_k,
    rem_frag_ends,     \* what frag_generator yields
    rem_i,             \* how many fragments the loop has taken
    rem_counts         \* end_motif_counts

VARIABLES
    \* ---- end_motifs(input_file, refseq_file, k, ..., workers)
    em_pc,             \* "called", "pool", "returned"
    em_input,          \* the fragments of input_file: Seq(<<contig, start, stop>>)
    em_refseq,         \* the 2bit reference
    em_chroms,         \* refseq.chroms(): Seq(<<chrom, chrom_length>>)
    em_k,
    em_workers,
    em_intervals,      \* Seq(<<chrom, start, stop>>), one per window
    em_jobs,           \* the pool's tasks: "queued", "running", "done"
    em_counts,         \* the tasks' results, filled as the tasks complete
    em_consumed,       \* how many results counts_iter has yielded
    em_ccounts,
    em_results         \* the EndMotifFreqs returned

VARIABLES
    \* ---- EndMotifFreqs(kmer_frequencies, k, refseq_file, quality_threshold)
    emf_pc,            \* "called", "constructed", "ValueError"
    emf_kmer_frequencies, \* the pairs of the iterable: Seq(<<kmer, frequency>>)
    emf_one_shot,      \* the iterable is an iterator (zip), not a list
    emf_k,
    emf_self           \* the mapping built by dict.__init__

VARIABLES
    \* ---- GenomeGaps(gaps_bed) and the queries made of it
    gg_pc,             \* "constructed"
    gg_gaps,           \* the lines of gaps_bed: Seq([contig, start, stop, type])
    gg_contig,         \* the arguments of the queries
    gg_start,
    gg_stop,
    gg_in_tcmere,      \* outcome of GenomeGaps.in_tcmere(contig, start, stop)
    gg_get_arm,        \* outcome of GenomeGaps.get_arm(contig, start, stop)
    gg_contig_gaps,    \* outcome of GenomeGaps.get_contig_gaps(contig)
    cg_in_tcmere,      \* outcome of ContigGaps.in_tcmere(start, stop)
    cg_get_arm,        \* outcome of ContigGaps.get_arm(start, stop)
    gg_hg38,           \* outcome of GenomeGaps.ucsc_hg38()
    gg_hg38_bed        \* outcome of ucsc_hg38_gap_bed(output_file)

wpsVars == <<wps_pc, wps_input, wps_start, wps_stop, wps_window_size,
             wps_fraction, wps_output_file, wps_frag_ends, wps_scores, wps_out>>

aggVars == <<agg_pc, agg_input, agg_site_bed, agg_size_around_sites,
             agg_window_size, agg_fraction, agg_workers, agg_output_file,
             agg_jobs, agg_contig_scores, agg_done_order, agg_scores, agg_out>>

dwVars == <<dw_pc, dw_window, dw_blacklist_file, dw_centromere_file,
            dw_reference, dw_blacklist_regions, dw_centromeres, dw_acc,
            dw_read1, dw_fetched, dw_result>>

trimVars == <<trim_pc, trim_window_data, trim_percentile, trim_trimmed>>

delfiVars == <<delfi_pc, delfi_input, delfi_autosomes, delfi_reference,
               delfi_blacklist_file, delfi_centromere_file, delfi_output_file,
               delfi_window_size, delfi_workers, delfi_window_args, delfi_jobs,
               delfi_windows, delfi_trimmed, delfi_out, delfi_num_frags>>

rcVars == <<rc_pc, rc_kmer, rc_value>>

remVars == <<rem_pc, rem_input, rem_window, rem_refseq, rem_k, rem_frag_ends,
             rem_i, rem_counts>>

emVars == <<em_pc, em_input, em_refseq, em_chroms, em_k, em_workers,
            em_intervals, em_jobs, em_counts, em_consumed, em_ccounts,
            em_results>>

emfVars == <<emf_pc, emf_kmer_frequencies, emf_one_shot, emf_k, emf_self>>

motifVars == <<rcVars, remVars, emVars, emfVars>>

gapVars == <<gg_pc, gg_gaps, gg_contig, gg_start, gg_stop, gg_in_tcmere,
             gg_get_arm, gg_contig_gaps, cg_in_tcmere, cg_get_arm, gg_hg38,
             gg_hg38_bed>>

VARIABLES
    \* ---- frag_length(input_file, contig, output_file, quality_threshold)
    fl_pc,             \* "called", "returned", "ValueError", "TypeError"
    fl_input,          \* the reads of input_file: Seq(<<contig, read>>)
    fl_contig,         \* None or the contig to restrict the fetch to
    fl_output_file,
    fl_lengths,        \* the array returned
    fl_out             \* the file written

flVars == <<fl_pc, fl_input, fl_contig, fl_output_file, fl_lengths, fl_out>>

VARIABLES
    \* ---- main_cli(), run on one command line
    cli_pc,            \* "start", "parsed", "called", "TypeError", ...
    cli_subcommand,    \* the subcommand word of the command line, or None
    cli_flags,         \* the optional flags given on the command line
    cli_args,          \* the parsed namespace: a set of <<name, value>>
    cli_function,      \* the component function called
    cli_funcargs       \* the keyword arguments of the call

cliVars == <<cli_pc, cli_subcommand, cli_flags, cli_args, cli_function,
             cli_funcargs>>

VARIABLES
    \* ---- _agg_wps_single_contig(input_file, contig, site_bed, ...)
    sc_pc,             \* the statement the job is at
    sc_fails,          \* the step that raises in this run, or "none"
    sc_size_around_sites,
    sc_sites,          \* the strands of the site lines of site_bed
    sc_i,              \* index of the site line being read
    sc_frag_bed,       \* the local frag_bed: "unbound" or the path
    sc_files,          \* the temporary files that exist
    sc_unaggregated,   \* the local unaggregated_scores
    sc_scores,         \* the local scores
    sc_error,          \* the exception in flight, or "none"
    sc_caught          \* the exception the except clause handled, or "none"

scVars == <<sc_pc, sc_fails, sc_size_around_sites, sc_sites, sc_i,
            sc_frag_bed, sc_files, sc_unaggregated, sc_scores, sc_error,
            sc_caught>>

VARIABLES
    \* ---- a call whose region jobs run on a worker pool
    pool_pc,           \* "called", "pool", "reduced", "returned", "raised"
    pool_site,         \* the function called
    pool_tasks,        \* number of region tasks handed to the pool
    pool_fails,        \* the tasks that raise when they are run
    pool_workers,
    pool_jobs,         \* state of every job of the pool
    pool_error,        \* the job whose exception the call raises, or 0
    pool_consumed,     \* number of job results the caller has taken
    pool_late,         \* jobs that went on after a job had raised
    pool_result,       \* what the call returned
    pool_out           \* an output file was written

poolVars == <<pool_pc, pool_site, pool_tasks, pool_fails, pool_workers, pool_jobs,
              pool_error, pool_consumed, pool_late, pool_result, pool_out>>

entryVars == <<flVars, cliVars, scVars, poolVars>>

vars == <<wpsVars, aggVars, dwVars, trimVars, delfiVars, motifVars, gapVars,
          entryVars>>

None == "None"

(***************************************************************************)
(* Helpers of the Python runtime and numpy.                                *)
(***************************************************************************)
\* round(n / 2) and numpy.rint(n / 2): halves go to the even neighbour
RoundHalfEven2(n) ==
    LET q == n \div 2
    IN  IF n % 2 = 0 THEN q
        ELSE IF q % 2 = 0 THEN q ELSE q + 1

\* numpy.arange(lo, hi) as a sequence
Arange(lo, hi) == [i \in 1..(IF hi > lo THEN hi - lo ELSE 0) |-> lo + i - 1]

\* numpy.sum of a boolean mask
RECURSIVE NpSum(_)
NpSum(mask) ==
    IF mask = <<>> THEN 0
    ELSE (IF Head(mask) THEN 1 ELSE 0) + NpSum(Tail(mask))

(***************************************************************************)
(* frag/__init__.py: _single_wps, _wps_loop                                *)
(***************************************************************************)
\* A faulty variant of _single_wps: the spanning test of the unused _vectorized_wps,
\* which is not strict.
SingleWpsNonStrict(window_start, window_stop, window_position, frag_ends) ==
    LET n == Len(frag_ends)
        is_spanning == [i \in 1..n |-> /\ frag_ends[i][1] <= window_start
                                       /\ frag_ends[i][2] >= window_stop]
        is_end_in   == [i \in 1..n |->
                           \/ /\ frag_ends[i][1] >= window_start
                              /\ frag_ends[i][1] <= window_stop
                           \/ /\ frag_ends[i][2] >= window_start
                              /\ frag_ends[i][2] <= window_stop]
    IN  <<window_position, NpSum(is_spanning) - NpSum(is_end_in)>>

_single_wps(window_start, window_stop, window_position, frag_ends) ==
    LET n == Len(frag_ends)
        is_spanning == [i \in 1..n |-> /\ frag_ends[i][1] < window_start
                                       /\ frag_ends[i][2] > window_stop]
        num_spanning == NpSum(is_spanning)
        is_start_in == [i \in 1..n |-> /\ frag_ends[i][1] >= window_start
                                       /\ frag_ends[i][1] <= window_stop]
        is_stop_in  == [i \in 1..n |-> /\ frag_ends[i][2] >= window_start
                                       /\ frag_ends[i][2] <= window_stop]
        is_end_in   == [i \in 1..n |-> is_start_in[i] \/ is_stop_in[i]]
        num_end_in  == NpSum(is_end_in)
    IN  <<window_position, num_spanning - num_end_in>>

\* np.rint(window_centers - window_size * 0.5)
WindowStart(center, window_size) == RoundHalfEven2(2 * center - window_size)
\* np.rint(window_centers + window_size * 0.5 - 1)
WindowStop(center, window_size) == RoundHalfEven2(2 * center + window_size - 2)

_wps_loop(frag_ends, start, stop, window_size) ==
    LET window_centers == Arange(start, stop)
    IN  [i \in 1..(stop - start) |->
            _single_wps(WindowStart(window_centers[i], window_size),
                        WindowStop(window_centers[i], window_size),
                        window_centers[i],
                        frag_ends)]

(***************************************************************************)
(* utils.frag_array: the fragments of the file that overlap                *)
(* [minimum, maximum) and whose length is in [fraction_low, fraction_high] *)
(***************************************************************************)
frag_array(file, minimum, maximum, fraction_low, fraction_high) ==
    LET keep(f) == /\ f[2] > minimum
                   /\ f[1] < maximum
                   /\ f[2] - f[1] >= fraction_low
                   /\ f[2] - f[1] <= fraction_high
    IN  SelectSeq(file, keep)

(***************************************************************************)
(* frag/__init__.py: wps                                                   *)
(***************************************************************************)
\* what the caller may pass as output_file
OutputFiles == {None, ".wig", ".wig.gz", ".txt", "NotAString"}

\* the WIG block wps writes: the declaration line's span, then the scores
WpsWig(scores, start, stop) ==
    [span |-> stop - start, lines |-> [i \in 1..Len(scores) |-> scores[i][2]]]

Fragments == {<<s, e>> : s \in 0..MaxCoord, e \in 0..MaxCoord} \
             {<<s, e>> \in (0..MaxCoord) \X (0..MaxCoord) : e <= s}

RECURSIVE SeqsUpTo(_, _)
SeqsUpTo(S, n) ==
    IF n = 0 THEN {<<>>}
    ELSE LET shorter == SeqsUpTo(S, n - 1)
         IN  shorter \cup {Append(q, x) : q \in {r \in shorter : Len(r) = n - 1}, x \in S}

FractionChoices == {<<2, MaxCoord>>, <<1, 1>>}

\* the other entry points are not running
WpsIdle ==
    /\ wps_pc = "idle"
    /\ wps_input = <<>>
    /\ wps_start = 0
    /\ wps_stop = 0
    /\ wps_window_size = 0
    /\ wps_fraction = <<0, 0>>
    /\ wps_output_file = None
    /\ wps_frag_ends = <<>>
    /\ wps_scores = <<>>
    /\ wps_out = None

\* blacklist_file: str=None, centromere_file: str=None
NoFile == [given |-> FALSE, lines |-> <<>>]
\* a file that was given, with its lines
File(lines) == [given |-> TRUE, lines |-> lines]

DwIdle ==
    /\ dw_pc = "idle"
    /\ dw_window = <<0, 0>>
    /\ dw_blacklist_file = NoFile
    /\ dw_centromere_file = NoFile
    /\ dw_reference = None
    /\ dw_blacklist_regions = <<>>
    /\ dw_centromeres = <<>>
    /\ dw_acc = None
    /\ dw_read1 = None
    /\ dw_fetched = 0
    /\ dw_result = None

TrimIdle ==
    /\ trim_pc = "idle"
    /\ trim_window_data = <<>>
    /\ trim_percentile = 0
    /\ trim_trimmed = <<>>

\* no file has been written
NoOutput == [written |-> FALSE, header |-> <<>>, rows |-> <<>>]

DelfiIdle ==
    /\ delfi_pc = "idle"
    /\ delfi_input = <<>>
    /\ delfi_autosomes = <<>>
    /\ delfi_reference = None
    /\ delfi_blacklist_file = NoFile
    /\ delfi_centromere_file = NoFile
    /\ delfi_output_file = None
    /\ delfi_window_size = 0
    /\ delfi_workers = 0
    /\ delfi_window_args = <<>>
    /\ delfi_jobs = <<>>
    /\ delfi_windows = <<>>
    /\ delfi_trimmed = <<>>
    /\ delfi_out = NoOutput
    /\ delfi_num_frags = 0

AggIdle ==
    /\ agg_pc = "idle"
    /\ agg_input = <<>>
    /\ agg_site_bed = <<>>
    /\ agg_size_around_sites = 0
    /\ agg_window_size = 0
    /\ agg_fraction = <<0, 0>>
    /\ agg_workers = 0
    /\ agg_output_file = None
    /\ agg_jobs = <<>>
    /\ agg_contig_scores = <<>>
    /\ agg_done_order = <<>>
    /\ agg_scores = <<>>
    /\ agg_out = None

\* an outcome of a call: the value returned, or the exception raised
Returned(value) == [raised |-> "", value |-> value]
Raised(exception) == [raised |-> exception, value |-> ""]
NotCalled == [raised |-> "NotCalled", value |-> ""]

RcIdle ==
    /\ rc_pc = "idle"
    /\ rc_kmer = <<>>
    /\ rc_value = <<>>

RemIdle ==
    /\ rem_pc = "idle"
    /\ rem_input = <<>>
    /\ rem_window = <<0, 0>>
    /\ rem_refseq = <<>>
    /\ rem_k = 0
    /\ rem_frag_ends = <<>>
    /\ rem_i = 0
    /\ rem_counts = <<>>

EmIdle ==
    /\ em_pc = "idle"
    /\ em_input = <<>>
    /\ em_refseq = <<>>
    /\ em_chroms = <<>>
    /\ em_k = 0
    /\ em_workers = 0
    /\ em_intervals = <<>>
    /\ em_jobs = <<>>
    /\ em_counts = <<>>
    /\ em_consumed = 0
    /\ em_ccounts = <<>>
    /\ em_results = [raised |-> "", self |-> <<>>]

EmfIdle ==
    /\ emf_pc = "idle"
    /\ emf_kmer_frequencies = <<>>
    /\ emf_one_shot = FALSE
    /\ emf_k = 0
    /\ emf_self = <<>>

MotifIdle == RcIdle /\ RemIdle /\ EmIdle /\ EmfIdle

GapIdle ==
    /\ gg_pc = "idle"
    /\ gg_gaps = <<>>
    /\ gg_contig = ""
    /\ gg_start = 0
    /\ gg_stop = 0
    /\ gg_in_tcmere = NotCalled
    /\ gg_get_arm = NotCalled
    /\ gg_contig_gaps = NotCalled
    /\ cg_in_tcmere = NotCalled
    /\ cg_get_arm = NotCalled
    /\ gg_hg38 = NotCalled
    /\ gg_hg38_bed = NotCalled

\* the written file of frag_length, before anything is written
FlNoFile == [written |-> FALSE, lengths |-> <<>>]

FlIdle ==
    /\ fl_pc = "idle"
    /\ fl_input = <<>>
    /\ fl_contig = None
    /\ fl_output_file = None
    /\ fl_lengths = <<>>
    /\ fl_out = FlNoFile

CliIdle ==
    /\ cli_pc = "idle"
    /\ cli_subcommand = None
    /\ cli_flags = {}
    /\ cli_args = {}
    /\ cli_function = None
    /\ cli_funcargs = {}

\* a local variable that no statement has assigned yet
Unbound == [bound |-> FALSE, value |-> <<>>]

ScIdle ==
    /\ sc_pc = "idle"
    /\ sc_fails = "none"
    /\ sc_size_around_sites = 0
    /\ sc_sites = <<>>
    /\ sc_i = 0
    /\ sc_frag_bed = "unbound"
    /\ sc_files = {}
    /\ sc_unaggregated = <<>>
    /\ sc_scores = Unbound
    /\ sc_error = "none"
    /\ sc_caught = "none"

PoolIdle ==
    /\ pool_pc = "idle"
    /\ pool_site = None
    /\ pool_tasks = 0
    /\ pool_fails = {}
    /\ pool_workers = 0
    /\ pool_jobs = <<>>
    /\ pool_error = 0
    /\ pool_consumed = 0
    /\ pool_late = {}
    /\ pool_result = "none"
    /\ pool_out = FALSE

EntryIdle == FlIdle /\ CliIdle /\ ScIdle /\ PoolIdle

InitWps ==
    /\ wps_pc = "called"
    /\ wps_input \in SeqsUpTo(Fragments, MaxFrags)
    /\ wps_start \in 0..MaxCoord
    /\ wps_stop \in 0..MaxCoord
    /\ wps_window_size \in 1..MaxWindow
    /\ wps_fraction \in FractionChoices
    /\ wps_output_file \in OutputFiles
    /\ wps_frag_ends = <<>>
    /\ wps_scores = <<>>
    /\ wps_out = None
    /\ AggIdle
    /\ DwIdle
    /\ TrimIdle
    /\ DelfiIdle
    /\ MotifIdle
    /\ GapIdle
    /\ EntryIdle

\* A faulty variant of wps: the empty-input branch returns an empty array.
WpsScoresEmptyDropped(frag_ends, start, stop, window_size) ==
    IF frag_ends = <<>>
    THEN <<>>
    ELSE _wps_loop(frag_ends, start, stop, window_size)

\* the scores wps computes from what frag_array returned
WpsScores(frag_ends, start, stop, window_size) ==
    IF frag_ends = <<>>
    THEN [i \in 1..(stop - start) |-> <<Arange(start, stop)[i], 0>>]
    ELSE _wps_loop(frag_ends, start, stop, window_size)

\* what wps returns when output_file is None and start <= stop
WpsReturn(file, start, stop, window_size, fraction) ==
    WpsScores(frag_array(file, start - fraction[2], stop + fraction[2],
                         fraction[1], fraction[2]),
              start, stop, window_size)

Wps ==
    /\ wps_pc = "called"
    /\ LET minimum   == wps_start - wps_fraction[2]
           maximum   == wps_stop + wps_fraction[2]
           frag_ends == frag_array(wps_input, minimum, maximum,
                                   wps_fraction[1], wps_fraction[2])
       IN  /\ wps_frag_ends' = frag_ends
           /\ IF wps_stop < wps_start
              THEN \* np.zeros((stop-start, 2)): negative dimensions
                   /\ wps_pc' = "ValueError"
                   /\ UNCHANGED <<wps_scores, wps_out>>
              ELSE LET scores == WpsScores(frag_ends, wps_start, wps_stop,
                                           wps_window_size)
                   IN  CASE wps_output_file \in {".wig", ".wig.gz"} ->
                                /\ wps_out' = WpsWig(scores, wps_start, wps_stop)
                                /\ wps_scores' = scores
                                /\ wps_pc' = "returned"
                         [] wps_output_file = ".txt" ->
                                /\ wps_pc' = "ValueError"
                                /\ UNCHANGED <<wps_scores, wps_out>>
                         [] wps_output_file = "NotAString" ->
                                /\ wps_pc' = "TypeError"
                                /\ UNCHANGED <<wps_scores, wps_out>>
                         [] OTHER ->
                                /\ wps_scores' = scores
                                /\ wps_pc' = "returned"
                                /\ UNCHANGED wps_out
    /\ UNCHANGED <<wps_input, wps_start, wps_stop, wps_window_size,
                   wps_fraction, wps_output_file>>
    /\ UNCHANGED <<aggVars, dwVars, trimVars, delfiVars,
                   motifVars, gapVars, entryVars>>

NextWps == Wps

SpecWps == InitWps /\ [][NextWps]_vars

\* the fragments of frag_ends that span [window_start, window_stop] strictly
Spanning(frag_ends, window_start, window_stop) ==
    {j \in 1..Len(frag_ends) : /\ frag_ends[j][1] < window_start
                               /\ frag_ends[j][2] > window_stop}

\* the fragments of frag_ends with a start or a stop in [window_start, window_stop]
EndpointIn(frag_ends, window_start, window_stop) ==
    {j \in 1..Len(frag_ends) :
        \/ frag_ends[j][1] \in window_start..window_stop
        \/ frag_ends[j][2] \in window_start..window_stop}

\* num_spanning - num_endpoint_in at position p
ScoreAt(frag_ends, p, window_size) ==
    Cardinality(Spanning(frag_ends, WindowStart(p, window_size),
                         WindowStop(p, window_size)))
    - Cardinality(EndpointIn(frag_ends, WindowStart(p, window_size),
                             WindowStop(p, window_size)))

\* C1: every position p that wps scored has score(p) = num_spanning -
\* num_endpoint_in, num_spanning counting the fragments with start <
\* window_start and stop > window_stop and num_endpoint_in those with a start
\* or a stop in [window_start, window_stop]; one fragment [100,400] with
\* window_size 120 at p = 250 (window [190,309]) scores 1.
C1_ScoreIsSpanningMinusEndpointIn ==
    /\ wps_pc = "returned" =>
          \A i \in 1..Len(wps_scores) :
              wps_scores[i] = <<wps_start + i - 1,
                                ScoreAt(wps_frag_ends, wps_start + i - 1,
                                        wps_window_size)>>
    /\ wps_pc = "returned" =>
          /\ WindowStart(250, 120) = 190
          /\ WindowStop(250, 120) = 309
          /\ _wps_loop(<< <<100, 400>> >>, 250, 251, 120) = << <<250, 1>> >>

\* C1's case: a returned series with a position under a spanning fragment
\* and a position whose window holds a fragment end
C1_Witness ==
    /\ wps_pc = "returned"
    /\ \E i, j \in 1..Len(wps_scores) :
          /\ wps_scores[i][2] > 0
          /\ wps_scores[j][2] < 0
          /\ Spanning(wps_frag_ends, WindowStart(wps_scores[i][1], wps_window_size),
                      WindowStop(wps_scores[i][1], wps_window_size)) # {}

\* C2: when frag_array returns no fragments and start <= stop, wps returns
\* without raising exactly stop-start rows, positions start..stop-1 in
\* order, every score 0.
C2_EmptyInputAllZero ==
    (/\ wps_pc # "called"
     /\ wps_frag_ends = <<>>
     /\ wps_start <= wps_stop
     /\ wps_output_file \in {None, ".wig", ".wig.gz"})
    => /\ wps_pc = "returned"
       /\ Len(wps_scores) = wps_stop - wps_start
       /\ \A i \in 1..(wps_stop - wps_start) :
             wps_scores[i] = <<wps_start + i - 1, 0>>

\* C2's case: the file holds fragments, none of them in the length band, and
\* the region has several positions
C2_Witness ==
    /\ wps_pc = "returned"
    /\ wps_input # <<>>
    /\ wps_frag_ends = <<>>
    /\ wps_stop - wps_start >= 2
    /\ Len(wps_scores) = wps_stop - wps_start

(***************************************************************************)
(* frag/__init__.py: aggregate_wps                                         *)
(***************************************************************************)
Strands == {"+", "-", "."}
SiteStarts == {1, 2}
Sites == [contig : {"chr1"}, start : SiteStarts, strand : Strands]
AggFragments == {<<0, 3>>, <<2, 3>>}
AggFractionChoices == {<<1, 3>>}

InitAgg ==
    /\ agg_pc = "called"
    /\ agg_input \in SeqsUpTo(AggFragments, MaxFrags)
    /\ agg_site_bed \in SeqsUpTo(Sites, MaxSites)
    /\ agg_size_around_sites \in 1..MaxSize
    /\ agg_window_size \in 1..MaxWindow
    /\ agg_fraction \in AggFractionChoices
    /\ agg_workers \in 1..MaxWorkers
    /\ agg_output_file \in OutputFiles
    /\ agg_jobs = <<>>
    /\ agg_contig_scores = <<>>
    /\ agg_done_order = <<>>
    /\ agg_scores = <<>>
    /\ agg_out = None
    /\ WpsIdle
    /\ DwIdle
    /\ TrimIdle
    /\ DelfiIdle
    /\ MotifIdle
    /\ GapIdle
    /\ EntryIdle

\* round(-size_around_sites / 2)
LeftOfSite(size_around_sites) == RoundHalfEven2(-size_around_sites)
\* round(size_around_sites / 2)
RightOfSite(size_around_sites) == RoundHalfEven2(size_around_sites)

\* the bed is read, the offsets are asserted and the pool is given one wps
\* task per line
AggStart ==
    /\ agg_pc = "called"
    /\ IF RightOfSite(agg_size_around_sites) - LeftOfSite(agg_size_around_sites)
          # agg_size_around_sites
       THEN /\ agg_pc' = "AssertionError"
            /\ UNCHANGED <<agg_jobs, agg_contig_scores>>
       ELSE /\ agg_pc' = "pool"
            /\ agg_jobs' = [i \in 1..Len(agg_site_bed) |-> "queued"]
            /\ agg_contig_scores' = [i \in 1..Len(agg_site_bed) |-> None]
    /\ UNCHANGED <<agg_input, agg_site_bed, agg_size_around_sites,
                   agg_window_size, agg_fraction, agg_workers, agg_output_file,
                   agg_done_order, agg_scores, agg_out>>
    /\ UNCHANGED <<wpsVars, dwVars, trimVars, delfiVars,
                   motifVars, gapVars, entryVars>>

Running == {i \in 1..Len(agg_jobs) : agg_jobs[i] = "running"}

\* a free worker takes the next task of the queue
AggJobStart ==
    /\ agg_pc = "pool"
    /\ Cardinality(Running) < agg_workers
    /\ \E i \in 1..Len(agg_jobs) :
          /\ agg_jobs[i] = "queued"
          /\ \A j \in 1..(i - 1) : agg_jobs[j] # "queued"
          /\ agg_jobs' = [agg_jobs EXCEPT ![i] = "running"]
    /\ UNCHANGED <<agg_pc, agg_input, agg_site_bed, agg_size_around_sites,
                   agg_window_size, agg_fraction, agg_workers, agg_output_file,
                   agg_contig_scores, agg_done_order, agg_scores, agg_out>>
    /\ UNCHANGED <<wpsVars, dwVars, trimVars, delfiVars,
                   motifVars, gapVars, entryVars>>

\* the task wps(input_file, contig, tss+left_of_site, tss+right_of_site, None,
\* window_size, fraction_low, fraction_high, quality_threshold)
SiteWps(site, file, size_around_sites, window_size, fraction) ==
    WpsReturn(file,
              site.start + LeftOfSite(size_around_sites),
              site.start + RightOfSite(size_around_sites),
              window_size, fraction)

\* any running task completes; its result takes its place in starmap's list
AggJobDone ==
    /\ agg_pc = "pool"
    /\ \E i \in Running :
          /\ agg_jobs' = [agg_jobs EXCEPT ![i] = "done"]
          /\ agg_contig_scores' =
                [agg_contig_scores EXCEPT
                    ![i] = SiteWps(agg_site_bed[i], agg_input,
                                   agg_size_around_sites, agg_window_size,
                                   agg_fraction)]
          /\ agg_done_order' = Append(agg_done_order, i)
    /\ UNCHANGED <<agg_pc, agg_input, agg_site_bed, agg_size_around_sites,
                   agg_window_size, agg_fraction, agg_workers, agg_output_file,
                   agg_scores, agg_out>>
    /\ UNCHANGED <<wpsVars, dwVars, trimVars, delfiVars,
                   motifVars, gapVars, entryVars>>

\* A faulty variant of the reduction: the column is overwritten, not accumulated.
AddColumnOverwrite(scores, contig_score) ==
    [i \in 1..Len(scores) |-> <<scores[i][1], contig_score[i][2]>>]

\* scores[:, 1] = scores[:, 1] + contig_score[:, 1]
AddColumn(scores, contig_score) ==
    [i \in 1..Len(scores) |-> <<scores[i][1], scores[i][2] + contig_score[i][2]>>]

\* for contig_score in contig_scores: ...
RECURSIVE AggSum(_, _)
AggSum(scores, contig_scores) ==
    IF contig_scores = <<>> THEN scores
    ELSE AggSum(AddColumn(scores, Head(contig_scores)), Tail(contig_scores))

\* the WIG block aggregate_wps writes
AggWig(scores, left_of_site, window_size) ==
    [start |-> left_of_site, span |-> window_size,
     lines |-> [i \in 1..Len(scores) |-> scores[i][2]]]

\* starmap has returned: the series are summed, written and returned
AggReduce ==
    /\ agg_pc = "pool"
    /\ \A i \in 1..Len(agg_jobs) : agg_jobs[i] = "done"
    /\ LET left_of_site == LeftOfSite(agg_size_around_sites)
           right_of_site == RightOfSite(agg_size_around_sites)
           zeros == [i \in 1..agg_size_around_sites |->
                        <<Arange(left_of_site, right_of_site)[i], 0>>]
           scores == AggSum(zeros, agg_contig_scores)
       IN  CASE agg_output_file \in {".wig", ".wig.gz"} ->
                    /\ agg_out' = AggWig(scores, left_of_site, agg_window_size)
                    /\ agg_scores' = scores
                    /\ agg_pc' = "returned"
             [] agg_output_file = ".txt" ->
                    /\ agg_pc' = "ValueError"
                    /\ UNCHANGED <<agg_scores, agg_out>>
             [] agg_output_file = "NotAString" ->
                    /\ agg_pc' = "TypeError"
                    /\ UNCHANGED <<agg_scores, agg_out>>
             [] OTHER ->
                    /\ agg_scores' = scores
                    /\ agg_pc' = "returned"
                    /\ UNCHANGED agg_out
    /\ UNCHANGED <<agg_input, agg_site_bed, agg_size_around_sites,
                   agg_window_size, agg_fraction, agg_workers, agg_output_file,
                   agg_jobs, agg_contig_scores, agg_done_order>>
    /\ UNCHANGED <<wpsVars, dwVars, trimVars, delfiVars,
                   motifVars, gapVars, entryVars>>

NextAgg == AggStart \/ AggJobStart \/ AggJobDone \/ AggReduce

SpecAgg == InitAgg /\ [][NextAgg]_vars

\* the WPS series of one site, position by position, from the definition of
\* the score
SiteSeries(site, i) ==
    LET start == site.start + LeftOfSite(agg_size_around_sites)
        stop  == site.start + RightOfSite(agg_size_around_sites)
        frag_ends == frag_array(agg_input, start - agg_fraction[2],
                                stop + agg_fraction[2],
                                agg_fraction[1], agg_fraction[2])
    IN  ScoreAt(frag_ends, start + i - 1, agg_window_size)

\* the sum over the first k sites of the series oriented by strand: '+' as
\* it is, '-' reversed, anything else nothing
RECURSIVE OrientedTotal(_, _)
OrientedTotal(k, i) ==
    IF k = 0 THEN 0
    ELSE OrientedTotal(k - 1, i) +
         (CASE agg_site_bed[k].strand = "+" -> SiteSeries(agg_site_bed[k], i)
            [] agg_site_bed[k].strand = "-" ->
                   SiteSeries(agg_site_bed[k], agg_size_around_sites + 1 - i)
            [] OTHER -> 0)

\* the sum over the first k sites of the series as wps returns it
RECURSIVE PlainTotal(_, _)
PlainTotal(k, i) ==
    IF k = 0 THEN 0
    ELSE PlainTotal(k - 1, i) + SiteSeries(agg_site_bed[k], i)

\* C3: in aggregate_wps a '-' site contributes its series reversed, a '+'
\* site its series as it is, and a site of any other strand contributes
\* nothing to the aggregate sum.
C3_StrandOrientation ==
    agg_pc = "returned" =>
        \A i \in 1..agg_size_around_sites :
            agg_scores[i][2] = OrientedTotal(Len(agg_site_bed), i)

\* C4: aggregate_wps returns size_around_sites rows, positions left_of_site
\* .. right_of_site-1, each score the sum (not the mean) over the sites of
\* the site's wps score at that offset, whatever the number of workers and
\* the order in which the tasks completed.
C4_AggregateIsPositionwiseSum ==
    agg_pc = "returned" =>
        /\ Len(agg_scores) = agg_size_around_sites
        /\ agg_scores[1][1] = LeftOfSite(agg_size_around_sites)
        /\ agg_scores[Len(agg_scores)][1] = RightOfSite(agg_size_around_sites) - 1
        /\ \A i \in 1..agg_size_around_sites :
              agg_scores[i] = <<LeftOfSite(agg_size_around_sites) + i - 1,
                                PlainTotal(Len(agg_site_bed), i)>>

\* C4's case: two workers, two sites whose tasks completed out of order, and
\* an offset where both sites score
C4_Witness ==
    /\ agg_pc = "returned"
    /\ agg_workers = 2
    /\ agg_done_order = <<2, 1>>
    /\ \E i \in 1..agg_size_around_sites :
          /\ agg_contig_scores[1][i][2] # 0
          /\ agg_contig_scores[2][i][2] # 0
          /\ agg_scores[i][2] = agg_contig_scores[1][i][2] + agg_contig_scores[2][i][2]

(***************************************************************************)
(* frag/delfi.py: _delfi_single_window                                     *)
(***************************************************************************)
\* the contig the window is on
Contig == "chr1"
\* quality_threshold: int=30
QualityThreshold == 30
\* frag_length >= 100
ShortMin == 100
\* frag_length >= 151
LongMin == 151
\* frag_length <= 220
LongMax == 220

\* utils._not_read1_or_low_quality: the acceptance predicate, negated
_not_read1_or_low_quality(read, quality_threshold) ==
    \/ ~read.is_read1
    \/ read.mapping_quality < quality_threshold

\* lines 37-45 and 52-60: the lines of a region file on this contig that lie
\* within the window, as (start, stop) pairs
LoadRegions(file, contig, window_start, window_stop) ==
    IF ~file.given THEN <<>>
    ELSE LET keep(line) == /\ contig = line.contig
                           /\ window_start <= line.start
                           /\ window_stop >= line.stop
             kept == SelectSeq(file.lines, keep)
         IN  [i \in 1..Len(kept) |-> <<kept[i].start, kept[i].stop>>]

\* lines 88-95 and 98-105: the loop over the loaded regions
InRegions(regions, frag_start, frag_stop) ==
    \E i \in 1..Len(regions) :
        /\ (frag_start >= regions[i][1] /\ frag_start < regions[i][2])
        /\ (frag_stop >= regions[i][1] /\ frag_stop < regions[i][2])

\* A faulty variant of the loop body: a fragment of length 150 is counted as long.
DelfiReadLongFrom150(acc, read1, blacklist_regions, centromeres) ==
    IF _not_read1_or_low_quality(read1, QualityThreshold) THEN acc
    ELSE LET frag_start  == read1.reference_start
             frag_length == read1.template_length
             frag_stop   == frag_start + frag_length
         IN  IF /\ ~InRegions(blacklist_regions, frag_start, frag_stop)
                /\ ~InRegions(centromeres, frag_start, frag_stop)
                /\ frag_length >= ShortMin
                /\ frag_length <= LongMax
             THEN [short_lengths |->
                      IF frag_length >= LongMin - 1 THEN acc.short_lengths
                      ELSE Append(acc.short_lengths, frag_length),
                   long_lengths |->
                      IF frag_length >= LongMin - 1
                      THEN Append(acc.long_lengths, frag_length)
                      ELSE acc.long_lengths,
                   frag_pos |-> Append(acc.frag_pos, <<frag_start, frag_stop>>),
                   num_frags |-> acc.num_frags + 1]
             ELSE acc

\* lines 80-120: one iteration of the loop over the fetched reads
DelfiRead(acc, read1, blacklist_regions, centromeres) ==
    IF _not_read1_or_low_quality(read1, QualityThreshold) THEN acc
    ELSE LET frag_start  == read1.reference_start
             frag_length == read1.template_length
             frag_stop   == frag_start + frag_length
             blacklisted   == InRegions(blacklist_regions, frag_start, frag_stop)
             in_centromere == InRegions(centromeres, frag_start, frag_stop)
         IN  IF /\ ~blacklisted
                /\ ~in_centromere
                /\ frag_length >= ShortMin
                /\ frag_length <= LongMax
             THEN [short_lengths |->
                      IF frag_length >= LongMin THEN acc.short_lengths
                      ELSE Append(acc.short_lengths, frag_length),
                   long_lengths |->
                      IF frag_length >= LongMin
                      THEN Append(acc.long_lengths, frag_length)
                      ELSE acc.long_lengths,
                   frag_pos |-> Append(acc.frag_pos, <<frag_start, frag_stop>>),
                   num_frags |-> acc.num_frags + 1]
             ELSE acc

\* lines 62-66
EmptyAcc == [short_lengths |-> <<>>, long_lengths |-> <<>>,
             frag_pos |-> <<>>, num_frags |-> 0]

\* the references of the model: every base G or C, no base G or C, or G at
\* the even positions and A at the odd ones
References == {"GC", "AT", "GA"}

\* sum([(base == 'G' or base == 'C') for base in
\*      ref_seq.sequence(contig, frag_start, frag_stop).upper()])
GcBases(reference, frag_start, frag_stop) ==
    CASE reference = "GC" -> frag_stop - frag_start
      [] reference = "AT" -> 0
      [] OTHER -> ((frag_stop + 1) \div 2) - ((frag_start + 1) \div 2)

RECURSIVE SumSeq(_)
SumSeq(q) == IF q = <<>> THEN 0 ELSE Head(q) + SumSeq(Tail(q))

\* a float: the quotient num / den, or np.NaN
Float(num, den) == [nan |-> FALSE, num |-> num, den |-> den]
NaN == [nan |-> TRUE, num |-> 0, den |-> 1]

\* lines 124-158: the GC content and the returned tuple
DelfiWindowResult(acc, reference, contig, window_start, window_stop) ==
    LET num_gc == SumSeq([i \in 1..Len(acc.frag_pos) |->
                             GcBases(reference, acc.frag_pos[i][1],
                                     acc.frag_pos[i][2])])
        frag_coverage == SumSeq(acc.short_lengths) + SumSeq(acc.long_lengths)
        gc_content == IF acc.num_frags > 0 THEN Float(num_gc, frag_coverage)
                      ELSE NaN
    IN  <<contig, window_start, window_stop,
          Len(acc.short_lengths), Len(acc.long_lengths),
          gc_content, acc.num_frags>>

\* a read of the alignment file; the alignment itself covers 50 bases
Read(start, length, mapq, read1) ==
    [reference_start |-> start, reference_end |-> start + 50,
     template_length |-> length, mapping_quality |-> mapq, is_read1 |-> read1]

ReadStarts == {1050, 1350}
ReadLengths == {99, 100, 150, 151, 220, 221}
ReadChoices ==
    {Read(st, ln, QualityThreshold, TRUE) : st \in ReadStarts, ln \in ReadLengths}
    \cup {Read(1350, 150, QualityThreshold - 1, TRUE),
          Read(1050, 150, QualityThreshold, FALSE)}

Region(contig, start, stop) == [contig |-> contig, start |-> start, stop |-> stop]

\* a blacklist interval within the window, one that extends past the window's
\* start, and one on another contig
BlacklistChoices == {Region("chr1", 1300, 1500), Region("chr1", 900, 1300),
                     Region("chr2", 1000, 1500)}
CentromereChoices == {Region("chr1", 1000, 1300)}
WindowChoices == {<<1000, 2000>>}

\* pysam fetch(contig, start, stop): the reads whose alignment overlaps the
\* window
Fetched(read, window_start, window_stop) ==
    /\ read.reference_start < window_stop
    /\ read.reference_end > window_start

InitDw ==
    /\ dw_pc = "called"
    /\ dw_window \in WindowChoices
    /\ dw_blacklist_file \in
          {NoFile} \cup {File(q) : q \in SeqsUpTo(BlacklistChoices, MaxRegions)}
    /\ dw_centromere_file \in
          {NoFile} \cup {File(q) : q \in SeqsUpTo(CentromereChoices, MaxRegions)}
    /\ dw_reference \in References
    /\ dw_blacklist_regions = <<>>
    /\ dw_centromeres = <<>>
    /\ dw_acc = None
    /\ dw_read1 = None
    /\ dw_fetched = 0
    /\ dw_result = None
    /\ WpsIdle
    /\ AggIdle
    /\ TrimIdle
    /\ DelfiIdle
    /\ MotifIdle
    /\ GapIdle
    /\ EntryIdle

\* lines 32-66: the region files are read
DwLoad ==
    /\ dw_pc = "called"
    /\ dw_pc' = "reading"
    /\ dw_blacklist_regions' =
          LoadRegions(dw_blacklist_file, Contig, dw_window[1], dw_window[2])
    /\ dw_centromeres' =
          LoadRegions(dw_centromere_file, Contig, dw_window[1], dw_window[2])
    /\ dw_acc' = EmptyAcc
    /\ UNCHANGED <<dw_window, dw_blacklist_file, dw_centromere_file,
                   dw_reference, dw_read1, dw_fetched, dw_result>>
    /\ UNCHANGED <<wpsVars, aggVars, trimVars, delfiVars,
                   motifVars, gapVars, entryVars>>

\* lines 74-120: fetch yields one more read
DwRead ==
    /\ dw_pc = "reading"
    /\ dw_fetched < MaxReads
    /\ \E read1 \in ReadChoices :
          /\ Fetched(read1, dw_window[1], dw_window[2])
          /\ dw_read1' = read1
          /\ dw_acc' = DelfiRead(dw_acc, read1, dw_blacklist_regions,
                                 dw_centromeres)
    /\ dw_fetched' = dw_fetched + 1
    /\ UNCHANGED <<dw_pc, dw_window, dw_blacklist_file, dw_centromere_file,
                   dw_reference, dw_blacklist_regions, dw_centromeres,
                   dw_result>>
    /\ UNCHANGED <<wpsVars, aggVars, trimVars, delfiVars,
                   motifVars, gapVars, entryVars>>

\* lines 121-158: fetch is exhausted
DwReturn ==
    /\ dw_pc = "reading"
    /\ dw_pc' = "returned"
    /\ dw_result' = DelfiWindowResult(dw_acc, dw_reference, Contig,
                                      dw_window[1], dw_window[2])
    /\ UNCHANGED <<dw_window, dw_blacklist_file, dw_centromere_file,
                   dw_reference, dw_blacklist_regions, dw_centromeres, dw_acc,
                   dw_read1, dw_fetched>>
    /\ UNCHANGED <<wpsVars, aggVars, trimVars, delfiVars,
                   motifVars, gapVars, entryVars>>

NextDw == DwLoad \/ DwRead \/ DwReturn

SpecDw == InitDw /\ [][NextDw]_vars

\* the fragment of a read lies inside an interval of a region file on the
\* window's contig
InsideLine(read, file) ==
    /\ file.given
    /\ \E i \in 1..Len(file.lines) :
          /\ file.lines[i].contig = Contig
          /\ read.reference_start >= file.lines[i].start
          /\ read.reference_start + read.template_length <= file.lines[i].stop

Accepted(read) ==
    read.is_read1 /\ read.mapping_quality >= QualityThreshold

\* the step is one iteration of the loop over the fetched reads
ReadStep == dw_pc = "reading" /\ dw_fetched' = dw_fetched + 1

ShortCount(acc) == Len(acc.short_lengths)
LongCount(acc) == Len(acc.long_lengths)

\* C5: an accepted fragment that is neither blacklisted nor centromeric
\* increments coverage_short only when its length is 100..150, coverage_long
\* only when it is 151..220, and changes no count when it is < 100 or > 220.
C5_LengthClassification ==
    [][(/\ ReadStep
        /\ Accepted(dw_read1')
        /\ ~InsideLine(dw_read1', dw_blacklist_file)
        /\ ~InsideLine(dw_read1', dw_centromere_file))
       => LET len == dw_read1'.template_length
          IN  /\ len \in 100..150 =>
                    /\ ShortCount(dw_acc') = ShortCount(dw_acc) + 1
                    /\ LongCount(dw_acc') = LongCount(dw_acc)
                    /\ dw_acc'.num_frags = dw_acc.num_frags + 1
              /\ len \in 151..220 =>
                    /\ LongCount(dw_acc') = LongCount(dw_acc) + 1
                    /\ ShortCount(dw_acc') = ShortCount(dw_acc)
                    /\ dw_acc'.num_frags = dw_acc.num_frags + 1
              /\ (len < 100 \/ len > 220) =>
                    /\ ShortCount(dw_acc') = ShortCount(dw_acc)
                    /\ LongCount(dw_acc') = LongCount(dw_acc)
                    /\ dw_acc'.num_frags = dw_acc.num_frags]_vars

\* C5's case: a window returns one short fragment of length 150 and one long
\* fragment of length 151, both outside the listed intervals
C5_Witness ==
    /\ dw_pc = "returned"
    /\ dw_blacklist_file.given
    /\ dw_blacklist_file.lines # <<>>
    /\ dw_acc.short_lengths = <<150>>
    /\ dw_acc.long_lengths = <<151>>
    /\ dw_result[4] = 1
    /\ dw_result[5] = 1
    /\ dw_result[7] = 2
    /\ ~InsideLine(dw_read1, dw_blacklist_file)

\* C9: an accepted fragment inside a blacklist or centromere interval listed
\* for its contig is excluded from coverage_short, coverage_long and
\* num_frags, also when the interval extends past the bin boundary and when
\* the fragment's stop equals the interval's stop.
C9_ListedIntervalsExclude ==
    [][(/\ ReadStep
        /\ Accepted(dw_read1')
        /\ \/ InsideLine(dw_read1', dw_blacklist_file)
           \/ InsideLine(dw_read1', dw_centromere_file))
       => /\ ShortCount(dw_acc') = ShortCount(dw_acc)
          /\ LongCount(dw_acc') = LongCount(dw_acc)
          /\ dw_acc'.num_frags = dw_acc.num_frags]_vars

(***************************************************************************)
(* frag/delfi.py: trim_coverage                                            *)
(***************************************************************************)
\* a row of the structured array built at lines 286-296 from a window tuple
ArrayRow(window) ==
    [contig |-> window[1], start |-> window[2], stop |-> window[3],
     short |-> Float(window[4], 1), long |-> Float(window[5], 1),
     gc |-> window[6], num_frags |-> window[7]]

RECURSIVE Insert(_, _)
Insert(x, sorted) ==
    IF sorted = <<>> THEN <<x>>
    ELSE IF x <= Head(sorted) THEN <<x>> \o sorted
         ELSE <<Head(sorted)>> \o Insert(x, Tail(sorted))

RECURSIVE Sort(_)
Sort(q) == IF q = <<>> THEN <<>> ELSE Insert(Head(q), Sort(Tail(q)))

\* 100 * np.percentile(values, q): the values are sorted and the percentile
\* is interpolated linearly between the two ranks around (n-1) * q / 100
Percentile100(values, q) ==
    LET sorted == Sort(values)
        rank100 == (Len(values) - 1) * q
        below == rank100 \div 100
        rest == rank100 % 100
    IN  IF rest = 0 THEN 100 * sorted[below + 1]
        ELSE 100 * sorted[below + 1]
             + rest * (sorted[below + 2] - sorted[below + 1])

\* trimmed[...][in_percentile] = ...
TrimRow(row) == [row EXCEPT !.short = NaN, !.long = NaN, !.gc = NaN,
                            !.num_frags = 0]

\* A faulty variant of trim_coverage: the array is trimmed in place, without a copy.
TrimCoverageInPlace(window_data, percentile) ==
    LET ten_percentile100 ==
            Percentile100([i \in 1..Len(window_data) |->
                              window_data[i].num_frags], percentile)
        trimmed == [i \in 1..Len(window_data) |->
                       IF 100 * window_data[i].num_frags < ten_percentile100
                       THEN TrimRow(window_data[i])
                       ELSE window_data[i]]
    IN  [window_data |-> trimmed, trimmed |-> trimmed]

\* A faulty variant of trim_coverage: the gc column is left as it was.
TrimCoverageKeepsGc(window_data, percentile) ==
    LET ten_percentile100 ==
            Percentile100([i \in 1..Len(window_data) |->
                              window_data[i].num_frags], percentile)
    IN  [window_data |-> window_data,
         trimmed |-> [i \in 1..Len(window_data) |->
                         IF 100 * window_data[i].num_frags < ten_percentile100
                         THEN [window_data[i] EXCEPT !.short = NaN,
                                                     !.long = NaN,
                                                     !.num_frags = 0]
                         ELSE window_data[i]]]

\* lines 170-177: the caller's array after the call, and the returned copy
trim_coverage(window_data, percentile) ==
    LET ten_percentile100 ==
            Percentile100([i \in 1..Len(window_data) |->
                              window_data[i].num_frags], percentile)
        in_percentile == [i \in 1..Len(window_data) |->
                             100 * window_data[i].num_frags < ten_percentile100]
        trimmed == [i \in 1..Len(window_data) |->
                       IF in_percentile[i] THEN TrimRow(window_data[i])
                       ELSE window_data[i]]
    IN  [window_data |-> window_data, trimmed |-> trimmed]

\* the rows _delfi_single_window can return for a bin with n fragments
BinCounts == {<<short, long>> \in (0..MaxNumFrags) \X (0..MaxNumFrags) :
                 short + long <= MaxNumFrags}

\* the array of n bins of width 100 with the given counts
WindowData(counts) ==
    [i \in 1..Len(counts) |->
        ArrayRow(<<Contig, (i - 1) * 100, i * 100, counts[i][1], counts[i][2],
                   IF counts[i][1] + counts[i][2] > 0
                   THEN Float(counts[i][1] + counts[i][2],
                              150 * (counts[i][1] + counts[i][2]))
                   ELSE NaN,
                   counts[i][1] + counts[i][2]>>)]

\* trim_percentile: int=10
DefaultTrimPercentile == 10
PercentileChoices == {0, DefaultTrimPercentile, 50, 100}

InitTrim ==
    /\ trim_pc = "called"
    /\ trim_window_data \in
          {WindowData(c) : c \in SeqsUpTo(BinCounts, MaxBins) \ {<<>>}}
    /\ trim_percentile \in PercentileChoices
    /\ trim_trimmed = <<>>
    /\ WpsIdle
    /\ AggIdle
    /\ DwIdle
    /\ DelfiIdle
    /\ MotifIdle
    /\ GapIdle
    /\ EntryIdle

TrimCoverage ==
    /\ trim_pc = "called"
    /\ trim_pc' = "returned"
    /\ trim_window_data' =
          trim_coverage(trim_window_data, trim_percentile).window_data
    /\ trim_trimmed' = trim_coverage(trim_window_data, trim_percentile).trimmed
    /\ UNCHANGED trim_percentile
    /\ UNCHANGED <<wpsVars, aggVars, dwVars, delfiVars,
                   motifVars, gapVars, entryVars>>

NextTrim == TrimCoverage

SpecTrim == InitTrim /\ [][NextTrim]_vars

\* 100 * P, P the trim_percentile-th percentile of num_frags over the bins
P100 == Percentile100([i \in 1..Len(trim_window_data) |->
                          trim_window_data[i].num_frags], trim_percentile)

Trimmed(row) ==
    row.short = NaN /\ row.long = NaN /\ row.gc = NaN /\ row.num_frags = 0

C7_TrimFrame ==
    [][trim_pc = "called" /\ trim_pc' = "returned" =>
          /\ trim_window_data' = trim_window_data
          /\ Len(trim_trimmed') = Len(trim_window_data)
          /\ \A i \in 1..Len(trim_window_data) :
                /\ trim_trimmed'[i].contig = trim_window_data[i].contig
                /\ trim_trimmed'[i].start = trim_window_data[i].start
                /\ trim_trimmed'[i].stop = trim_window_data[i].stop
                /\ 100 * trim_window_data[i].num_frags > P100 =>
                      trim_trimmed'[i] = trim_window_data[i]]_vars

\* C7's case: one bin is trimmed, another lies above the percentile and
\* comes back as it was, and the caller's array still holds the trimmed bin's
\* counts
C7_Witness ==
    /\ trim_pc = "returned"
    /\ \E i, j \in 1..Len(trim_window_data) :
          /\ 100 * trim_window_data[i].num_frags < P100
          /\ trim_window_data[i].num_frags > 0
          /\ trim_trimmed[i] # trim_window_data[i]
          /\ 100 * trim_window_data[j].num_frags > P100
          /\ trim_trimmed[j] = trim_window_data[j]

(***************************************************************************)
(* frag/delfi.py: delfi                                                    *)
(***************************************************************************)
\* List(range(start, stop, step)) for step > 0
RECURSIVE Range(_, _, _)
Range(start, stop, step) ==
    IF start >= stop THEN <<>>
    ELSE <<start>> \o Range(start + step, stop, step)

\* lines 264-275: the bins of one contig
ContigWindows(contig, size, window_size) ==
    LET coordinates == Range(0, size, window_size)
    IN  [i \in 1..Len(coordinates) |->
            <<contig, coordinates[i], coordinates[i] + window_size>>]

\* lines 262-275: the bins of every contig, in the order of the file
RECURSIVE WindowArgs(_, _)
WindowArgs(contigs, window_size) ==
    IF contigs = <<>> THEN <<>>
    ELSE ContigWindows(Head(contigs)[1], Head(contigs)[2], window_size)
         \o WindowArgs(Tail(contigs), window_size)

\* lines 74-120: the loop over the fetched reads
RECURSIVE DelfiLoop(_, _, _, _)
DelfiLoop(acc, reads, blacklist_regions, centromeres) ==
    IF reads = <<>> THEN acc
    ELSE DelfiLoop(DelfiRead(acc, Head(reads), blacklist_regions, centromeres),
                   Tail(reads), blacklist_regions, centromeres)

\* _delfi_single_window as one task of the pool
_delfi_single_window(input, reference, contig, window_start, window_stop, blacklist_file, centromere_file) ==
    LET blacklist_regions ==
            LoadRegions(blacklist_file, contig, window_start, window_stop)
        centromeres ==
            LoadRegions(centromere_file, contig, window_start, window_stop)
        overlaps(r) == r[1] = contig /\ Fetched(r[2], window_start, window_stop)
        fetched == SelectSeq(input, overlaps)
        reads == [i \in 1..Len(fetched) |-> fetched[i][2]]
    IN  DelfiWindowResult(DelfiLoop(EmptyAcc, reads, blacklist_regions,
                                    centromeres),
                          reference, contig, window_start, window_stop)

\* what the caller may pass as output_file
DelfiOutputFiles == {None, ".bed", ".bed.gz", ".tsv", ".txt"}

ContigNames == <<"chr1", "chr2", "chr3", "chr4">>
ContigLengths == {500 * k : k \in 4..MaxContigUnits}
DelfiWindowSizes == {1000, 1500}

\* the autosomes files of the model: chr1, chr2, ... with any of the lengths
AutosomesFiles ==
    {[i \in 1..Len(q) |-> <<ContigNames[i], q[i]>>] :
        q \in SeqsUpTo(ContigLengths, MaxContigs) \ {<<>>}}

\* the alignment files of the model
DelfiInputFiles ==
    {<<>>,
     << <<"chr1", Read(1050, 150, QualityThreshold, TRUE)>>,
        <<"chr1", Read(1350, 151, QualityThreshold, TRUE)>> >>,
     << <<"chr1", Read(50, 151, QualityThreshold, TRUE)>>,
        <<"chr1", Read(1350, 150, QualityThreshold, TRUE)>>,
        <<"chr1", Read(1350, 220, QualityThreshold, TRUE)>> >>}

InitDelfi ==
    /\ delfi_pc = "called"
    /\ delfi_input \in DelfiInputFiles
    /\ delfi_autosomes \in AutosomesFiles
    /\ delfi_reference = "GA"
    /\ delfi_blacklist_file \in {NoFile, File(<<Region("chr1", 1300, 1600)>>)}
    /\ delfi_centromere_file = NoFile
    /\ delfi_output_file \in DelfiOutputFiles
    /\ delfi_window_size \in DelfiWindowSizes
    /\ delfi_workers \in 1..MaxWorkers
    /\ delfi_window_args = <<>>
    /\ delfi_jobs = <<>>
    /\ delfi_windows = <<>>
    /\ delfi_trimmed = <<>>
    /\ delfi_out = NoOutput
    /\ delfi_num_frags = 0
    /\ WpsIdle
    /\ AggIdle
    /\ DwIdle
    /\ TrimIdle
    /\ MotifIdle
    /\ GapIdle
    /\ EntryIdle

\* lines 250-279: the autosomes file is read and the bins are generated
DelfiStart ==
    /\ delfi_pc = "called"
    /\ delfi_pc' = "pool"
    /\ delfi_window_args' = WindowArgs(delfi_autosomes, delfi_window_size)
    /\ delfi_jobs' = [i \in 1..Len(delfi_window_args') |-> "queued"]
    /\ delfi_windows' = [i \in 1..Len(delfi_window_args') |-> <<>>]
    /\ UNCHANGED <<delfi_input, delfi_autosomes, delfi_reference,
                   delfi_blacklist_file, delfi_centromere_file,
                   delfi_output_file, delfi_window_size, delfi_workers,
                   delfi_trimmed, delfi_out, delfi_num_frags>>
    /\ UNCHANGED <<wpsVars, aggVars, dwVars, trimVars, motifVars, gapVars, entryVars>>

DelfiRunning == {i \in 1..Len(delfi_jobs) : delfi_jobs[i] = "running"}

\* lines 282-283: a free worker takes the next task of the queue
DelfiJobStart ==
    /\ delfi_pc = "pool"
    /\ Cardinality(DelfiRunning) < delfi_workers
    /\ \E i \in 1..Len(delfi_jobs) :
          /\ delfi_jobs[i] = "queued"
          /\ \A j \in 1..(i - 1) : delfi_jobs[j] # "queued"
          /\ delfi_jobs' = [delfi_jobs EXCEPT ![i] = "running"]
    /\ UNCHANGED <<delfi_pc, delfi_input, delfi_autosomes, delfi_reference,
                   delfi_blacklist_file, delfi_centromere_file,
                   delfi_output_file, delfi_window_size, delfi_workers,
                   delfi_window_args, delfi_windows, delfi_trimmed, delfi_out,
                   delfi_num_frags>>
    /\ UNCHANGED <<wpsVars, aggVars, dwVars, trimVars, motifVars, gapVars, entryVars>>

\* lines 282-283: any running task completes
DelfiJobDone ==
    /\ delfi_pc = "pool"
    /\ \E i \in DelfiRunning :
          /\ delfi_jobs' = [delfi_jobs EXCEPT ![i] = "done"]
          /\ delfi_windows' =
                [delfi_windows EXCEPT
                    ![i] = _delfi_single_window(
                               delfi_input, delfi_reference,
                               delfi_window_args[i][1], delfi_window_args[i][2],
                               delfi_window_args[i][3], delfi_blacklist_file,
                               delfi_centromere_file)]
    /\ UNCHANGED <<delfi_pc, delfi_input, delfi_autosomes, delfi_reference,
                   delfi_blacklist_file, delfi_centromere_file,
                   delfi_output_file, delfi_window_size, delfi_workers,
                   delfi_window_args, delfi_trimmed, delfi_out,
                   delfi_num_frags>>
    /\ UNCHANGED <<wpsVars, aggVars, dwVars, trimVars, motifVars, gapVars, entryVars>>

\* lines 304-308, 311-315: the header and one line per window, each line the
\* seven fields of the window
DelfiTable(header, trimmed_windows) ==
    [written |-> TRUE,
     header |-> header,
     rows |-> [i \in 1..Len(trimmed_windows) |->
                  <<trimmed_windows[i].contig, trimmed_windows[i].start,
                    trimmed_windows[i].stop, trimmed_windows[i].short,
                    trimmed_windows[i].long, trimmed_windows[i].gc,
                    trimmed_windows[i].num_frags>>]]

BedHeader == <<"#contig", "start", "stop", "short", "long", "gc%">>
TsvHeader == <<"contig", "start", "stop", "short", "long", "gc%">>

\* lines 285-330: starmap has returned; the bins are trimmed and written
DelfiFinish ==
    /\ delfi_pc = "pool"
    /\ \A i \in 1..Len(delfi_jobs) : delfi_jobs[i] = "done"
    /\ LET window_array == [i \in 1..Len(delfi_windows) |->
                               ArrayRow(delfi_windows[i])]
           trimmed_windows ==
               trim_coverage(window_array, DefaultTrimPercentile).trimmed
           num_frags == SumSeq([i \in 1..Len(delfi_windows) |->
                                   delfi_windows[i][4]])
       IN  /\ delfi_trimmed' = trimmed_windows
           /\ CASE delfi_output_file = None ->
                       \* None has no endswith
                       /\ delfi_pc' = "AttributeError"
                       /\ UNCHANGED <<delfi_out, delfi_num_frags>>
                [] delfi_output_file = ".bed" ->
                       /\ delfi_out' = DelfiTable(BedHeader, trimmed_windows)
                       /\ delfi_num_frags' = num_frags
                       /\ delfi_pc' = "returned"
                [] delfi_output_file = ".tsv" ->
                       /\ delfi_out' = DelfiTable(TsvHeader, trimmed_windows)
                       /\ delfi_num_frags' = num_frags
                       /\ delfi_pc' = "returned"
                [] delfi_output_file = ".bed.gz" ->
                       \* gzip.open(output_file, 'w') is a binary file: the
                       \* first write of a str raises
                       /\ delfi_out' = [written |-> TRUE, header |-> <<>>,
                                        rows |-> <<>>]
                       /\ delfi_pc' = "TypeError"
                       /\ UNCHANGED delfi_num_frags
                [] OTHER ->
                       \* no branch matches the suffix
                       /\ delfi_num_frags' = num_frags
                       /\ delfi_pc' = "returned"
                       /\ UNCHANGED delfi_out
    /\ UNCHANGED <<delfi_input, delfi_autosomes, delfi_reference,
                   delfi_blacklist_file, delfi_centromere_file,
                   delfi_output_file, delfi_window_size, delfi_workers,
                   delfi_window_args, delfi_jobs, delfi_windows>>
    /\ UNCHANGED <<wpsVars, aggVars, dwVars, trimVars, motifVars, gapVars, entryVars>>

NextDelfi == DelfiStart \/ DelfiJobStart \/ DelfiJobDone \/ DelfiFinish

SpecDelfi == InitDelfi /\ [][NextDelfi]_vars

\* the bins generated for the contig of line k of the autosomes file
BinsOf(k) ==
    {i \in 1..Len(delfi_window_args) :
        delfi_window_args[i][1] = delfi_autosomes[k][1]}

\* C8: for every contig of length L the bins are pairwise non-overlapping,
\* cover exactly [0, L), no bin has stop > L and the final bin has stop = L.
C8_BinsTileContig ==
    delfi_pc # "called" =>
        \A k \in 1..Len(delfi_autosomes) :
            LET L == delfi_autosomes[k][2]
                bins == BinsOf(k)
            IN  /\ \A i, j \in bins :
                      i # j => \/ delfi_window_args[i][3] <= delfi_window_args[j][2]
                               \/ delfi_window_args[j][3] <= delfi_window_args[i][2]
                /\ \A i \in bins : /\ delfi_window_args[i][2] >= 0
                                   /\ delfi_window_args[i][3] <= L
                /\ \E i \in bins : delfi_window_args[i][2] = 0
                /\ \E i \in bins : delfi_window_args[i][3] = L
                /\ \A i \in bins :
                      \/ delfi_window_args[i][3] = L
                      \/ \E j \in bins :
                            delfi_window_args[j][2] = delfi_window_args[i][3]

\* C10: delfi called with an output_file whose suffix is none of .bed,
\* .bed.gz, .tsv ends in an error; it never completes normally having
\* written nothing.
C10_UnknownSuffixRejected ==
    (/\ delfi_output_file \notin {None, ".bed", ".bed.gz", ".tsv"}
     /\ delfi_pc \notin {"idle", "called", "pool"})
    => delfi_pc # "returned"

(***************************************************************************)
(* frag/end_motifs.py: _gen_kmers, _reverse_complement                     *)
(***************************************************************************)
\* bases='ACGT'
Bases == <<"A", "C", "G", "T">>

\* _gen_kmers(k, bases) for k >= 1: every (k-1)-mer extended by every base
RECURSIVE _gen_kmers(_, _)
_gen_kmers(k, bases) ==
    IF k = 1 THEN [i \in 1..Len(bases) |-> <<bases[i]>>]
    ELSE LET k_minus_mers == _gen_kmers(k - 1, bases)
         IN  [j \in 1..(Len(k_minus_mers) * Len(bases)) |->
                 Append(k_minus_mers[((j - 1) \div Len(bases)) + 1],
                        bases[((j - 1) % Len(bases)) + 1])]

\* kmer[-1::-1]
Reversed(kmer) == [i \in 1..Len(kmer) |-> kmer[Len(kmer) + 1 - i]]

pair_dict == [base \in {"A", "T", "G", "C"} |->
                 CASE base = "A" -> "T"
                   [] base = "T" -> "A"
                   [] base = "G" -> "C"
                   [] base = "C" -> "G"]

\* A faulty variant of _reverse_complement: the bases are complemented in
\* place, the string is not reversed.
ComplementInPlace(kmer) == [i \in 1..Len(kmer) |-> pair_dict[kmer[i]]]

_reverse_complement(kmer) ==
    LET reversed == Reversed(kmer)
    IN  [i \in 1..Len(reversed) |-> pair_dict[reversed[i]]]

\* pair_dict[base] raises KeyError for a base that is not a key
HasUnpairedBase(kmer) == \E i \in 1..Len(kmer) : kmer[i] \notin DOMAIN pair_dict

\* the strings handed to _reverse_complement
RcKmers == SeqsUpTo({"A", "C", "G", "T", "N"}, MaxKmerLen)

InitRc ==
    /\ rc_pc = "called"
    /\ rc_kmer \in RcKmers
    /\ rc_value = rc_kmer
    /\ WpsIdle
    /\ AggIdle
    /\ DwIdle
    /\ TrimIdle
    /\ DelfiIdle
    /\ RemIdle
    /\ EmIdle
    /\ EmfIdle
    /\ GapIdle
    /\ EntryIdle

\* _reverse_complement is applied to the string, then to its own result
ReverseComplement ==
    /\ rc_pc \in {"called", "once"}
    /\ IF HasUnpairedBase(rc_value)
       THEN /\ rc_pc' = "KeyError"
            /\ UNCHANGED rc_value
       ELSE /\ rc_pc' = IF rc_pc = "called" THEN "once" ELSE "twice"
            /\ rc_value' = _reverse_complement(rc_value)
    /\ UNCHANGED rc_kmer
    /\ UNCHANGED <<wpsVars, aggVars, dwVars, trimVars, delfiVars, remVars,
                   emVars, emfVars, gapVars, entryVars>>

NextRc == ReverseComplement

SpecRc == InitRc /\ [][NextRc]_vars

\* the complement of a base, written out
Complement(base) ==
    IF base = "A" THEN "T"
    ELSE IF base = "T" THEN "A"
    ELSE IF base = "G" THEN "C"
    ELSE IF base = "C" THEN "G"
    ELSE "?"

OverACGT(kmer) == \A i \in 1..Len(kmer) : kmer[i] \in {"A", "C", "G", "T"}

\* C12: for every string s over {A,C,G,T}, _reverse_complement(s) is s
\* reversed with A<->T and G<->C exchanged, 'AACG' gives 'CGTT', and
\* applying _reverse_complement twice gives s back.
C12_ReverseComplementRoundTrip ==
    OverACGT(rc_kmer) =>
        /\ rc_pc # "KeyError"
        /\ rc_pc = "once" =>
              /\ Len(rc_value) = Len(rc_kmer)
              /\ \A i \in 1..Len(rc_kmer) :
                    rc_value[i] = Complement(rc_kmer[Len(rc_kmer) + 1 - i])
              /\ rc_kmer = <<"A", "A", "C", "G">> =>
                    rc_value = <<"C", "G", "T", "T">>
        /\ rc_pc = "twice" => rc_value = rc_kmer

\* C12's case: 'AACG' has been reverse-complemented twice
C12_Witness ==
    /\ rc_pc = "twice"
    /\ rc_kmer = <<"A", "A", "C", "G">>
    /\ rc_value = <<"A", "A", "C", "G">>

(***************************************************************************)
(* frag/end_motifs.py: region_end_motifs                                   *)
(***************************************************************************)
\* fraction_low=4, fraction_high=100000 of the call of frag_generator
EmFractionLow == 4
EmFractionHigh == 100000

\* finaletools.utils.frag_generator: the fragments of the file on contig, in
\* file order, that lie in [minimum, maximum) and whose length is in
\* [fraction_low, fraction_high]; frag[1] and frag[2] of the source are the
\* fragment's start and stop (the second and third component here)
frag_generator(file, contig, minimum, maximum, fraction_low, fraction_high) ==
    LET keep(f) == /\ f[1] = contig
                   /\ f[3] > minimum
                   /\ f[2] < maximum
                   /\ f[3] - f[2] >= fraction_low
                   /\ f[3] - f[2] <= fraction_high
    IN  SelectSeq(file, keep)

\* refseq.sequence(contig, start, stop): the bases at [start, stop) of a
\* reference whose bases repeat the pattern refseq
Sequence(refseq, start, stop) ==
    [i \in 1..(stop - start) |-> refseq[((start + i - 1) % Len(refseq)) + 1]]

\* 'N' in kmer
HasN(kmer) == \E i \in 1..Len(kmer) : kmer[i] = "N"

\* the set of the elements of a list
Elements(list) == {list[i] : i \in 1..Len(list)}

\* dict(zip(kmer_list, 4**k*[0]))
ZeroCounts(k) == [kmer \in Elements(_gen_kmers(k, Bases)) |-> 0]

\* A faulty variant of the loop body: the reverse motif is counted as read
\* from the reference, not reverse-complemented.
CountFragmentNoComplement(end_motif_counts, frag, refseq, k) ==
    LET forward_kmer == Sequence(refseq, frag[2], frag[2] + k)
        counted == IF HasN(forward_kmer) THEN end_motif_counts
                   ELSE [end_motif_counts EXCEPT ![forward_kmer] = @ + 1]
        reverse_kmer == Sequence(refseq, frag[3] - k, frag[3])
    IN  IF HasN(reverse_kmer) THEN counted
        ELSE [counted EXCEPT ![reverse_kmer] = @ + 1]

\* lines 140-153: one iteration of the loop over the fragments
CountFragment(end_motif_counts, frag, refseq, k) ==
    LET forward_kmer == Sequence(refseq, frag[2], frag[2] + k)
        counted == IF HasN(forward_kmer) THEN end_motif_counts
                   ELSE [end_motif_counts EXCEPT ![forward_kmer] = @ + 1]
        reverse_kmer == Sequence(refseq, frag[3] - k, frag[3])
    IN  IF HasN(reverse_kmer) THEN counted
        ELSE [counted EXCEPT ![_reverse_complement(reverse_kmer)] = @ + 1]

\* the 2bit references of the model, each the pattern its bases repeat
Refseqs == {<<"A", "C", "G", "T", "N">>,
            <<"A", "A", "C", "G", "T", "T">>,
            <<"G", "N", "N", "C">>}

\* the fragments an alignment file of the model may hold
RemFragments == {<<"chr1", s, s + len>> : s \in {2, 5, 9}, len \in {3, 4, 7}}
                \cup {<<"chr2", 2, 6>>}

InitRem ==
    /\ rem_pc = "called"
    /\ rem_input \in SeqsUpTo(RemFragments, MaxRemFrags)
    /\ rem_window \in {<<0, 20>>, <<6, 20>>}
    /\ rem_refseq \in Refseqs
    /\ rem_k \in 1..MaxK
    /\ rem_frag_ends = <<>>
    /\ rem_i = 0
    /\ rem_counts = <<>>
    /\ WpsIdle
    /\ AggIdle
    /\ DwIdle
    /\ TrimIdle
    /\ DelfiIdle
    /\ RcIdle
    /\ EmIdle
    /\ EmfIdle
    /\ GapIdle
    /\ EntryIdle

\* lines 121-139: the generator is made and the counters are zeroed
RemOpen ==
    /\ rem_pc = "called"
    /\ rem_pc' = "counting"
    /\ rem_frag_ends' = frag_generator(rem_input, "chr1", rem_window[1],
                                       rem_window[2], EmFractionLow,
                                       EmFractionHigh)
    /\ rem_counts' = ZeroCounts(rem_k)
    /\ UNCHANGED <<rem_input, rem_window, rem_refseq, rem_k, rem_i>>
    /\ UNCHANGED <<wpsVars, aggVars, dwVars, trimVars, delfiVars, rcVars,
                   emVars, emfVars, gapVars, entryVars>>

\* lines 140-153: the loop takes the next fragment
RemCount ==
    /\ rem_pc = "counting"
    /\ rem_i < Len(rem_frag_ends)
    /\ rem_i' = rem_i + 1
    /\ rem_counts' = CountFragment(rem_counts, rem_frag_ends[rem_i + 1],
                                   rem_refseq, rem_k)
    /\ UNCHANGED <<rem_pc, rem_input, rem_window, rem_refseq, rem_k,
                   rem_frag_ends>>
    /\ UNCHANGED <<wpsVars, aggVars, dwVars, trimVars, delfiVars, rcVars,
                   emVars, emfVars, gapVars, entryVars>>

\* lines 154-163: the generator is exhausted
RemReturn ==
    /\ rem_pc = "counting"
    /\ rem_i = Len(rem_frag_ends)
    /\ rem_pc' = "returned"
    /\ UNCHANGED <<rem_input, rem_window, rem_refseq, rem_k, rem_frag_ends,
                   rem_i, rem_counts>>
    /\ UNCHANGED <<wpsVars, aggVars, dwVars, trimVars, delfiVars, rcVars,
                   emVars, emfVars, gapVars, entryVars>>

NextRem == RemOpen \/ RemCount \/ RemReturn

SpecRem == InitRem /\ [][NextRem]_vars

\* the base of the reference at a position
RefBase(pos) == rem_refseq[(pos % Len(rem_refseq)) + 1]

\* the k bases at [start, start+k)
ForwardMotif(start) == [i \in 1..rem_k |-> RefBase(start + i - 1)]

\* the reverse complement of the k bases at [stop-k, stop)
ReverseMotif(stop) == [i \in 1..rem_k |-> Complement(RefBase(stop - i))]

\* by how much the fragment (start, stop) is to raise the counter of kmer
Increment(kmer, start, stop) ==
    (IF kmer = ForwardMotif(start) THEN 1 ELSE 0)
    + (IF kmer = ReverseMotif(stop) THEN 1 ELSE 0)

DictOf(pairs) ==
    LET keys == {pairs[i][1] : i \in 1..Len(pairs)}
        last(key) == CHOOSE i \in 1..Len(pairs) :
                        /\ pairs[i][1] = key
                        /\ \A j \in (i + 1)..Len(pairs) : pairs[j][1] # key
    IN  [key \in keys |-> pairs[last(key)][2]]

\* EndMotifFreqs.__init__: dict.__init__ iterates kmer_frequencies first, the
\* length check iterates it again; an iterator (one_shot) is exhausted by the
\* first pass and yields nothing to the second, a list yields its pairs again
EndMotifFreqs(kmer_frequencies, one_shot, k) ==
    LET self == DictOf(kmer_frequencies)
        second_pass == IF one_shot THEN <<>> ELSE kmer_frequencies
    IN  IF \A i \in 1..Len(second_pass) : Len(second_pass[i][1]) = k
        THEN [raised |-> "", self |-> self]
        ELSE [raised |-> "ValueError", self |-> self]

\* lines 140-153: the loop over the fragments of the generator
RECURSIVE RegionLoop(_, _, _, _)
RegionLoop(end_motif_counts, frag_ends, refseq, k) ==
    IF frag_ends = <<>> THEN end_motif_counts
    ELSE RegionLoop(CountFragment(end_motif_counts, Head(frag_ends), refseq, k),
                    Tail(frag_ends), refseq, k)

region_end_motifs(input_file, contig, start, stop, refseq, k) ==
    RegionLoop(ZeroCounts(k),
               frag_generator(input_file, contig, start, stop, EmFractionLow,
                              EmFractionHigh),
               refseq, k)

\* np.array(list(results_dict.values())): the counts in the order the keys
\* were inserted, which is the order of _gen_kmers
_region_end_motifs_star(results_dict, k) ==
    LET kmer_list == _gen_kmers(k, Bases)
    IN  [i \in 1..Len(kmer_list) |-> results_dict[kmer_list[i]]]

\* window_size = 1000000
EmWindowSize == 1000000

\* lines 217-239: the windows of one chromosome
ChromIntervals(chrom, chrom_length) ==
    LET starts == Range(0, chrom_length, EmWindowSize)
    IN  [i \in 1..Len(starts) |-> <<chrom, starts[i], starts[i] + EmWindowSize>>]
        \o << <<chrom, chrom_length - (chrom_length % EmWindowSize),
                chrom_length>> >>

\* lines 214-239: the windows of every chromosome
RECURSIVE Intervals(_)
Intervals(chroms) ==
    IF chroms = <<>> THEN <<>>
    ELSE ChromIntervals(Head(chroms)[1], Head(chroms)[2])
         \o Intervals(Tail(chroms))

\* chunksize=min(int(len(intervals)/workers/2+1), 1000)
Min(a, b) == IF a < b THEN a ELSE b
ChunkSize(intervals, workers) ==
    Min((Len(intervals) \div (2 * workers)) + 1, 1000)

\* the chunk a task belongs to
ChunkOf(i, chunksize) == ((i - 1) \div chunksize) + 1

\* np.zeros((4**k,), np.float64)
Zeros(k) == [i \in 1..(4 ^ k) |-> 0]

\* A faulty variant of the accumulation: the sum is overwritten.
AddCountsOverwrite(ccounts, count) == count

\* ccounts + count
AddCounts(ccounts, count) == [i \in 1..Len(ccounts) |-> ccounts[i] + count[i]]

\* ccounts/np.sum(ccounts): 0/0 is nan
Frequencies(ccounts) ==
    LET total == SumSeq(ccounts)
    IN  [i \in 1..Len(ccounts) |->
            IF total = 0 THEN NaN ELSE Float(ccounts[i], total)]

\* zip(kmer_list, frequencies)
Zip(kmer_list, frequencies) ==
    [i \in 1..Min(Len(kmer_list), Len(frequencies)) |->
        <<kmer_list[i], frequencies[i]>>]

\* no result yet
NoCounts == [dict |-> <<>>, array |-> <<>>]
NoResults == [raised |-> "", self |-> <<>>]

EmChromLengths == {500000 * j : j \in 2..MaxEmUnits}

\* refseq.chroms() of the references of the model
EmChroms ==
    {[i \in 1..Len(q) |-> <<ContigNames[i], q[i]>>] :
        q \in SeqsUpTo(EmChromLengths, MaxEmContigs) \ {<<>>}}

\* the alignment files of the model
EmInputFiles ==
    {<<>>,
     << <<"chr1", 5, 12>>, <<"chr1", 1200000, 1200007>> >>,
     << <<"chr1", 6, 10>>, <<"chr1", 999990, 999997>> >>,
     << <<"chr1", 999998, 1000004>>, <<"chr1", 1200001, 1200005>>,
        <<"chr1", 1400000, 1400003>> >>}

\* the fragments of an alignment file lie on the chromosomes of its reference
Aligned(input_file, chroms) ==
    \A i \in 1..Len(input_file) :
        \E c \in 1..Len(chroms) :
            /\ chroms[c][1] = input_file[i][1]
            /\ input_file[i][3] <= chroms[c][2]

InitEm ==
    /\ em_pc = "called"
    /\ em_input \in EmInputFiles
    /\ em_refseq \in Refseqs
    /\ em_chroms \in EmChroms
    /\ Aligned(em_input, em_chroms)
    /\ em_k \in 1..MaxK
    /\ em_workers \in 1..MaxWorkers
    /\ em_intervals = <<>>
    /\ em_jobs = <<>>
    /\ em_counts = <<>>
    /\ em_consumed = 0
    /\ em_ccounts = <<>>
    /\ em_results = NoResults
    /\ WpsIdle
    /\ AggIdle
    /\ DwIdle
    /\ TrimIdle
    /\ DelfiIdle
    /\ RcIdle
    /\ RemIdle
    /\ EmfIdle
    /\ GapIdle
    /\ EntryIdle

\* lines 203-253: the windows are listed and handed to the pool in chunks
EmStart ==
    /\ em_pc = "called"
    /\ em_pc' = "pool"
    /\ em_intervals' = Intervals(em_chroms)
    /\ em_jobs' = [c \in 1..ChunkOf(Len(em_intervals'),
                                    ChunkSize(em_intervals', em_workers)) |->
                      "queued"]
    /\ em_counts' = [i \in 1..Len(em_intervals') |-> NoCounts]
    /\ em_ccounts' = Zeros(em_k)
    /\ UNCHANGED <<em_input, em_refseq, em_chroms, em_k, em_workers,
                   em_consumed, em_results>>
    /\ UNCHANGED <<wpsVars, aggVars, dwVars, trimVars, delfiVars, rcVars,
                   remVars, emfVars, gapVars, entryVars>>

EmRunning == {c \in 1..Len(em_jobs) : em_jobs[c] = "running"}

\* lines 247-251: a free worker takes the next chunk of the queue
EmJobStart ==
    /\ em_pc = "pool"
    /\ Cardinality(EmRunning) < em_workers
    /\ \E c \in 1..Len(em_jobs) :
          /\ em_jobs[c] = "queued"
          /\ \A d \in 1..(c - 1) : em_jobs[d] # "queued"
          /\ em_jobs' = [em_jobs EXCEPT ![c] = "running"]
    /\ UNCHANGED <<em_pc, em_input, em_refseq, em_chroms, em_k, em_workers,
                   em_intervals, em_counts, em_consumed, em_ccounts,
                   em_results>>
    /\ UNCHANGED <<wpsVars, aggVars, dwVars, trimVars, delfiVars, rcVars,
                   remVars, emfVars, gapVars, entryVars>>

\* lines 166-168, 247-251: a worker has run _region_end_motifs_star on every
\* window of its chunk
EmJobDone ==
    /\ em_pc = "pool"
    /\ \E c \in EmRunning :
          /\ em_jobs' = [em_jobs EXCEPT ![c] = "done"]
          /\ em_counts' =
                [i \in 1..Len(em_intervals) |->
                    IF ChunkOf(i, ChunkSize(em_intervals, em_workers)) = c
                    THEN LET results_dict ==
                                 region_end_motifs(em_input, em_intervals[i][1],
                                                   em_intervals[i][2],
                                                   em_intervals[i][3],
                                                   em_refseq, em_k)
                         IN  [dict |-> results_dict,
                              array |-> _region_end_motifs_star(results_dict,
                                                                em_k)]
                    ELSE em_counts[i]]
    /\ UNCHANGED <<em_pc, em_input, em_refseq, em_chroms, em_k, em_workers,
                   em_intervals, em_consumed, em_ccounts, em_results>>
    /\ UNCHANGED <<wpsVars, aggVars, dwVars, trimVars, delfiVars, rcVars,
                   remVars, emfVars, gapVars, entryVars>>

\* lines 254-255: counts_iter yields the next result, in the order of the
\* windows
EmAdd ==
    /\ em_pc = "pool"
    /\ em_consumed < Len(em_intervals)
    /\ em_jobs[ChunkOf(em_consumed + 1,
                       ChunkSize(em_intervals, em_workers))] = "done"
    /\ em_consumed' = em_consumed + 1
    /\ em_ccounts' = AddCounts(em_ccounts, em_counts[em_consumed + 1].array)
    /\ UNCHANGED <<em_pc, em_input, em_refseq, em_chroms, em_k, em_workers,
                   em_intervals, em_jobs, em_counts, em_results>>
    /\ UNCHANGED <<wpsVars, aggVars, dwVars, trimVars, delfiVars, rcVars,
                   remVars, emfVars, gapVars, entryVars>>

\* lines 257-276: the counts are normalised and returned
EmReturn ==
    /\ em_pc = "pool"
    /\ em_consumed = Len(em_intervals)
    /\ em_results' = EndMotifFreqs(Zip(_gen_kmers(em_k, Bases),
                                       Frequencies(em_ccounts)),
                                   TRUE, em_k)
    /\ em_pc' = IF em_results'.raised = "" THEN "returned"
                ELSE em_results'.raised
    /\ UNCHANGED <<em_input, em_refseq, em_chroms, em_k, em_workers,
                   em_intervals, em_jobs, em_counts, em_consumed, em_ccounts>>
    /\ UNCHANGED <<wpsVars, aggVars, dwVars, trimVars, delfiVars, rcVars,
                   remVars, emfVars, gapVars, entryVars>>

NextEm == EmStart \/ EmJobStart \/ EmJobDone \/ EmAdd \/ EmReturn

SpecEm == InitEm /\ [][NextEm]_vars

\* every string of length k over {A,C,G,T}
AllKmers(k) == [1..k -> {"A", "C", "G", "T"}]

\* the windows made for the chromosome of position c of the reference
WindowsOf(c) ==
    SelectSeq(em_intervals, LAMBDA w : w[1] = em_chroms[c][1])

\* the count of kmer summed over the windows
SummedCount(kmer) ==
    SumSeq([i \in 1..Len(em_counts) |-> em_counts[i].dict[kmer]])

\* the number of motifs counted in all the windows
GrandTotal ==
    LET kmers == _gen_kmers(em_k, Bases)
    IN  SumSeq([j \in 1..Len(kmers) |-> SummedCount(kmers[j])])

\* C11: _gen_kmers(k, 'ACGT') yields exactly 4^k pairwise distinct strings of
\* length k over {A,C,G,T}; the mappings returned by region_end_motifs and by
\* end_motifs have exactly those keys; and when at least one motif was
\* counted each value of end_motifs is the k-mer's summed count divided by
\* the grand total, so that the values sum to 1.
C11_KmersCompleteAndNormalised ==
    LET kmers == _gen_kmers(em_k, Bases)
    IN  /\ em_pc \in {"pool", "returned"} =>
              /\ Len(kmers) = 4 ^ em_k
              /\ \A i, j \in 1..Len(kmers) : i # j => kmers[i] # kmers[j]
              /\ \A i \in 1..Len(kmers) : kmers[i] \in AllKmers(em_k)
              /\ \A i \in 1..Len(em_counts) :
                    em_counts[i] # NoCounts =>
                        /\ DOMAIN em_counts[i].dict = AllKmers(em_k)
                        /\ Cardinality(DOMAIN em_counts[i].dict) = 4 ^ em_k
        /\ em_pc = "returned" =>
              /\ DOMAIN em_results.self = AllKmers(em_k)
              /\ Cardinality(DOMAIN em_results.self) = 4 ^ em_k
              /\ GrandTotal > 0 =>
                    /\ \A kmer \in AllKmers(em_k) :
                          em_results.self[kmer] =
                              Float(SummedCount(kmer), GrandTotal)
                    /\ SumSeq([j \in 1..Len(kmers) |->
                                  em_results.self[kmers[j]].num]) = GrandTotal

\* C11's case: end_motifs has returned for k = 2; motifs were counted in two
\* different windows
C11_Witness ==
    /\ em_pc = "returned"
    /\ em_k = 2
    /\ Cardinality(DOMAIN em_results.self) = 16
    /\ \E i, j \in 1..Len(em_counts) :
          /\ i # j
          /\ SumSeq(em_counts[i].array) > 0
          /\ SumSeq(em_counts[j].array) > 0
          /\ em_intervals[i][2] # em_intervals[j][2]

\* C13: for every contig of length L the windows end_motifs hands to
\* region_end_motifs are pairwise disjoint, none extends past L, and
\* together they cover [0, L).
C13_WindowsPartitionContig ==
    em_pc \in {"pool", "returned"} =>
        \A c \in 1..Len(em_chroms) :
            LET L == em_chroms[c][2]
                windows == WindowsOf(c)
            IN  /\ \A i, j \in 1..Len(windows) :
                      i # j => \/ windows[i][3] <= windows[j][2]
                               \/ windows[j][3] <= windows[i][2]
                /\ \A i \in 1..Len(windows) : /\ windows[i][2] >= 0
                                              /\ windows[i][3] <= L
                /\ SumSeq([i \in 1..Len(windows) |->
                              windows[i][3] - windows[i][2]]) = L

(***************************************************************************)
(* frag/end_motifs.py: EndMotifFreqs(kmer_frequencies, k, ...)             *)
(***************************************************************************)
\* the (kmer, frequency) pairs an iterable of the model may hold
PairChoices ==
    {<<kmer, frequency>> :
        kmer \in {<<"A">>, <<"C">>, <<"A", "C">>, <<"G", "T">>,
                  <<"A", "C", "G">>},
        frequency \in {0, 1}}

InitEmf ==
    /\ emf_pc = "called"
    /\ emf_kmer_frequencies \in SeqsUpTo(PairChoices, MaxPairs)
    /\ emf_one_shot \in BOOLEAN
    /\ emf_k \in 1..MaxK
    /\ emf_self = <<>>
    /\ WpsIdle
    /\ AggIdle
    /\ DwIdle
    /\ TrimIdle
    /\ DelfiIdle
    /\ RcIdle
    /\ RemIdle
    /\ EmIdle
    /\ GapIdle
    /\ EntryIdle

\* lines 45-60: the constructor returns, or raises ValueError
EmfConstruct ==
    /\ emf_pc = "called"
    /\ LET made == EndMotifFreqs(emf_kmer_frequencies, emf_one_shot, emf_k)
       IN  /\ emf_self' = made.self
           /\ emf_pc' = IF made.raised = "" THEN "constructed" ELSE made.raised
    /\ UNCHANGED <<emf_kmer_frequencies, emf_one_shot, emf_k>>
    /\ UNCHANGED <<wpsVars, aggVars, dwVars, trimVars, delfiVars, rcVars,
                   remVars, emVars, gapVars, entryVars>>

NextEmf == EmfConstruct

SpecEmf == InitEmf /\ [][NextEmf]_vars

\* C15: every successfully constructed EndMotifFreqs has only keys of length
\* exactly k; constructing it from a list or a one-shot iterator that holds
\* a k-mer whose length differs from k raises ValueError.
C15_KeysHaveLengthK ==
    /\ emf_pc = "constructed" =>
          \A kmer \in DOMAIN emf_self : Len(kmer) = emf_k
    /\ (/\ emf_pc # "called"
        /\ \E i \in 1..Len(emf_kmer_frequencies) :
              Len(emf_kmer_frequencies[i][1]) # emf_k)
       => emf_pc = "ValueError"

(***************************************************************************)
(* genome/gaps.py: GenomeGaps, ContigGaps                                  *)
(***************************************************************************)
\* a line of gaps_bed
Gap(contig, start, stop, type) ==
    [contig |-> contig, start |-> start, stop |-> stop, type |-> type]

\* gaps[gaps['type'] == type]
OfType(gaps, type) == SelectSeq(gaps, LAMBDA gap : gap.type = type)

\* array[array['contig'] == contig]
OnContig(array, contig) == SelectSeq(array, LAMBDA gap : gap.contig = contig)

\* stop > region['start'] and start < region['stop']
Overlaps(start, stop, region_start, region_stop) ==
    stop > region_start /\ start < region_stop

\* str(bool)
Bool(b) == IF b THEN "True" ELSE "False"

\* f"p{contig.replace('chr', '')}" and f"q{contig.replace('chr', '')}"
ArmName(arm, contig) ==
    CASE arm = "p" /\ contig = "chr1" -> "p1"
      [] arm = "q" /\ contig = "chr1" -> "q1"
      [] arm = "p" /\ contig = "chr2" -> "p2"
      [] arm = "q" /\ contig = "chr2" -> "q2"

\* GenomeGaps.in_tcmere: the outcomes the call may have.  in_centromere is an
\* array with one element per centromere record of the contig, and
\* `in_centromere or in_telomeres` takes its truth value: that of its
\* element when it has one, an error when it has several, and for an empty
\* array False or an error, depending on the numpy release
GenomeInTcmereOutcomes(gaps, contig, start, stop) ==
    LET centromere == OnContig(OfType(gaps, "centromere"), contig)
        telomeres == OnContig(OfType(gaps, "telomere"), contig)
        in_centromere == [i \in 1..Len(centromere) |->
                             Overlaps(start, stop, centromere[i].start,
                                      centromere[i].stop)]
        in_telomeres ==
            \E i \in 1..Len(telomeres) :
                Overlaps(start, stop, telomeres[i].start, telomeres[i].stop)
    IN  IF Len(centromere) = 0 /\ Len(telomeres) = 0
        THEN {Returned("None")}
        ELSE CASE Len(centromere) = 1 ->
                     {IF in_centromere[1] THEN Returned("True")
                      ELSE Returned(Bool(in_telomeres))}
               [] Len(centromere) = 0 ->
                     {Returned(Bool(in_telomeres)), Raised("ValueError")}
               [] OTHER -> {Raised("ValueError")}

\* A faulty variant of GenomeGaps.get_arm: the coordinates are not checked.
GenomeGetArmUnchecked(gaps, contig, start, stop) ==
    LET centromere == OnContig(OfType(gaps, "centromere"), contig)
        short_arm == OnContig(OfType(gaps, "short_arm"), contig)
    IN  IF Len(centromere) = 0 THEN Raised("IndexError")
        ELSE IF stop < centromere[1].start
        THEN IF Len(short_arm) = 0 THEN Returned(ArmName("p", contig))
             ELSE Returned("")
        ELSE IF start > centromere[1].stop
        THEN Returned(ArmName("q", contig))
        ELSE Returned("")

\* A faulty variant of GenomeGaps.get_arm: the short arm is not looked at.
GenomeGetArmNoShortArm(gaps, contig, start, stop) ==
    LET centromere == OnContig(OfType(gaps, "centromere"), contig)
    IN  IF stop < start THEN Raised("ValueError")
        ELSE IF Len(centromere) = 0 THEN Raised("IndexError")
        ELSE IF stop < centromere[1].start
        THEN Returned(ArmName("p", contig))
        ELSE IF start > centromere[1].stop
        THEN Returned(ArmName("q", contig))
        ELSE Returned("")

\* GenomeGaps.get_arm
GenomeGetArm(gaps, contig, start, stop) ==
    LET centromere == OnContig(OfType(gaps, "centromere"), contig)
        short_arm == OnContig(OfType(gaps, "short_arm"), contig)
        has_short_arm == Len(short_arm) > 0
    IN  IF stop < start THEN Raised("ValueError")
        ELSE IF Len(centromere) = 0 THEN Raised("IndexError")
        ELSE IF stop < centromere[1].start
        THEN IF ~has_short_arm THEN Returned(ArmName("p", contig))
             ELSE Returned("")
        ELSE IF start > centromere[1].stop
        THEN Returned(ArmName("q", contig))
        ELSE Returned("")

\* GenomeGaps.get_contig_gaps: centromere[0], telomeres[0] and telomeres[1]
\* raise IndexError when the record is missing
GetContigGaps(gaps, contig) ==
    LET centromere == OnContig(OfType(gaps, "centromere"), contig)
        telomeres == OnContig(OfType(gaps, "telomere"), contig)
        short_arm == OnContig(OfType(gaps, "short_arm"), contig)
    IN  IF Len(centromere) = 0 \/ Len(telomeres) < 2 THEN Raised("IndexError")
        ELSE Returned([contig |-> contig,
                       centromere |-> <<centromere[1].start, centromere[1].stop>>,
                       telomeres |-> << <<telomeres[1].start, telomeres[1].stop>>,
                                        <<telomeres[2].start, telomeres[2].stop>> >>,
                       has_short_arm |-> Len(short_arm) > 0])

\* ContigGaps.in_tcmere
ContigInTcmere(self, start, stop) ==
    LET in_centromere ==
            Overlaps(start, stop, self.centromere[1], self.centromere[2])
        in_telomeres ==
            \A i \in 1..Len(self.telomeres) :
                Overlaps(start, stop, self.telomeres[i][1], self.telomeres[i][2])
    IN  Returned(Bool(in_centromere \/ in_telomeres))

\* ContigGaps.get_arm
ContigGetArm(self, start, stop) ==
    IF stop < start THEN Raised("ValueError")
    ELSE IF stop < self.centromere[1]
    THEN IF ~self.has_short_arm THEN Returned(ArmName("p", self.contig))
         ELSE Returned("")
    ELSE IF start > self.centromere[2]
    THEN Returned(ArmName("q", self.contig))
    ELSE Returned("")

\* the lines a gaps_bed of the model may hold, in the order of the file
GapLines ==
    <<Gap("chr1", 0, 50, "telomere"),
      Gap("chr1", 50, 100, "short_arm"),
      Gap("chr1", 100, 200, "centromere"),
      Gap("chr1", 200, 250, "centromere"),
      Gap("chr1", 250, 300, "telomere"),
      Gap("chr2", 50, 150, "centromere")>>

\* the files gaps_bed of the model
GapFiles ==
    {SelectSeq(GapLines, LAMBDA gap : gap \in chosen) :
        chosen \in SUBSET Elements(GapLines)}

\* the coordinates of the queries
GapCoords == {50 * j : j \in 0..MaxGapUnits} \cup {160}

InitGaps ==
    /\ gg_pc = "in_tcmere"
    /\ gg_gaps \in GapFiles
    /\ gg_contig \in {"chr1", "chr2"}
    /\ gg_start \in GapCoords
    /\ gg_stop \in GapCoords
    /\ gg_in_tcmere = NotCalled
    /\ gg_get_arm = NotCalled
    /\ gg_contig_gaps = NotCalled
    /\ cg_in_tcmere = NotCalled
    /\ cg_get_arm = NotCalled
    /\ gg_hg38 = NotCalled
    /\ gg_hg38_bed = NotCalled
    /\ WpsIdle
    /\ AggIdle
    /\ DwIdle
    /\ TrimIdle
    /\ DelfiIdle
    /\ MotifIdle
    /\ EntryIdle

\* a client asks in_tcmere(contig, start, stop) of the GenomeGaps
GgInTcmere ==
    /\ gg_pc = "in_tcmere"
    /\ gg_pc' = "get_arm"
    /\ gg_in_tcmere' \in GenomeInTcmereOutcomes(gg_gaps, gg_contig, gg_start,
                                               gg_stop)
    /\ UNCHANGED <<gg_gaps, gg_contig, gg_start, gg_stop, gg_get_arm,
                   gg_contig_gaps, cg_in_tcmere, cg_get_arm, gg_hg38,
                   gg_hg38_bed>>
    /\ UNCHANGED <<wpsVars, aggVars, dwVars, trimVars, delfiVars, motifVars,
                   entryVars>>

\* then get_arm(contig, start, stop)
GgGetArm ==
    /\ gg_pc = "get_arm"
    /\ gg_pc' = "get_contig_gaps"
    /\ gg_get_arm' = GenomeGetArm(gg_gaps, gg_contig, gg_start, gg_stop)
    /\ UNCHANGED <<gg_gaps, gg_contig, gg_start, gg_stop, gg_in_tcmere,
                   gg_contig_gaps, cg_in_tcmere, cg_get_arm, gg_hg38,
                   gg_hg38_bed>>
    /\ UNCHANGED <<wpsVars, aggVars, dwVars, trimVars, delfiVars, motifVars,
                   entryVars>>

\* then get_contig_gaps(contig); the view is queried only when it was made
GgGetContigGaps ==
    /\ gg_pc = "get_contig_gaps"
    /\ gg_contig_gaps' = GetContigGaps(gg_gaps, gg_contig)
    /\ gg_pc' = IF gg_contig_gaps'.raised = "" THEN "cg_in_tcmere"
                ELSE "ucsc_hg38"
    /\ UNCHANGED <<gg_gaps, gg_contig, gg_start, gg_stop, gg_in_tcmere,
                   gg_get_arm, cg_in_tcmere, cg_get_arm, gg_hg38, gg_hg38_bed>>
    /\ UNCHANGED <<wpsVars, aggVars, dwVars, trimVars, delfiVars, motifVars,
                   entryVars>>

\* in_tcmere(start, stop) of the ContigGaps
CgInTcmere ==
    /\ gg_pc = "cg_in_tcmere"
    /\ gg_pc' = "cg_get_arm"
    /\ cg_in_tcmere' = ContigInTcmere(gg_contig_gaps.value, gg_start, gg_stop)
    /\ UNCHANGED <<gg_gaps, gg_contig, gg_start, gg_stop, gg_in_tcmere,
                   gg_get_arm, gg_contig_gaps, cg_get_arm, gg_hg38,
                   gg_hg38_bed>>
    /\ UNCHANGED <<wpsVars, aggVars, dwVars, trimVars, delfiVars, motifVars,
                   entryVars>>

\* get_arm(start, stop) of the ContigGaps
CgGetArm ==
    /\ gg_pc = "cg_get_arm"
    /\ gg_pc' = "ucsc_hg38"
    /\ cg_get_arm' = ContigGetArm(gg_contig_gaps.value, gg_start, gg_stop)
    /\ UNCHANGED <<gg_gaps, gg_contig, gg_start, gg_stop, gg_in_tcmere,
                   gg_get_arm, gg_contig_gaps, cg_in_tcmere, gg_hg38,
                   gg_hg38_bed>>
    /\ UNCHANGED <<wpsVars, aggVars, dwVars, trimVars, delfiVars, motifVars,
                   entryVars>>

\* lines 119-121: GenomeGaps.ucsc_hg38() returns the NotImplemented object
UcscHg38 ==
    /\ gg_pc = "ucsc_hg38"
    /\ gg_pc' = "ucsc_hg38_gap_bed"
    /\ gg_hg38' = Returned("NotImplemented")
    /\ UNCHANGED <<gg_gaps, gg_contig, gg_start, gg_stop, gg_in_tcmere,
                   gg_get_arm, gg_contig_gaps, cg_in_tcmere, cg_get_arm,
                   gg_hg38_bed>>
    /\ UNCHANGED <<wpsVars, aggVars, dwVars, trimVars, delfiVars, motifVars,
                   entryVars>>

\* lines 311-321: ucsc_hg38_gap_bed(output_file) returns the NotImplemented
\* object
UcscHg38GapBed ==
    /\ gg_pc = "ucsc_hg38_gap_bed"
    /\ gg_pc' = "done"
    /\ gg_hg38_bed' = Returned("NotImplemented")
    /\ UNCHANGED <<gg_gaps, gg_contig, gg_start, gg_stop, gg_in_tcmere,
                   gg_get_arm, gg_contig_gaps, cg_in_tcmere, cg_get_arm,
                   gg_hg38>>
    /\ UNCHANGED <<wpsVars, aggVars, dwVars, trimVars, delfiVars, motifVars,
                   entryVars>>

NextGaps ==
    \/ GgInTcmere
    \/ GgGetArm
    \/ GgGetContigGaps
    \/ CgInTcmere
    \/ CgGetArm
    \/ UcscHg38
    \/ UcscHg38GapBed

SpecGaps == InitGaps /\ [][NextGaps]_vars

\* the records of a type the file holds for the contig of the query
RecordsOf(type) ==
    {i \in 1..Len(gg_gaps) :
        gg_gaps[i].type = type /\ gg_gaps[i].contig = gg_contig}

Called(outcome) == outcome.raised # "NotCalled"

\* the arm's name: the letter, then the contig without 'chr'
ArmOf(letter) ==
    IF gg_contig = "chr1" THEN (IF letter = "p" THEN "p1" ELSE "q1")
    ELSE (IF letter = "p" THEN "p2" ELSE "q2")

\* C16: for a contig with one centromere (cs, ce) and an interval with
\* start <= stop, GenomeGaps.get_arm returns 'p'+contig-without-'chr' if the
\* interval lies entirely before the centromere and the contig has no short
\* arm, 'q'+contig-without-'chr' if it lies entirely after the centromere,
\* and '' otherwise (it overlaps the centromere, or the contig has a short
\* arm); centromere (100,200), no short arm: [0,50] -> p, [250,300] -> q,
\* [150,160] -> ''.
C16_ArmClassification ==
    (/\ Called(gg_get_arm)
     /\ Cardinality(RecordsOf("centromere")) = 1
     /\ gg_start <= gg_stop)
    => LET c == CHOOSE i \in RecordsOf("centromere") : TRUE
           cs == gg_gaps[c].start
           ce == gg_gaps[c].stop
           short == RecordsOf("short_arm") # {}
       IN  /\ gg_get_arm.raised = ""
           /\ (gg_stop < cs /\ ~short) => gg_get_arm.value = ArmOf("p")
           /\ gg_start > ce => gg_get_arm.value = ArmOf("q")
           /\ (gg_stop < cs /\ short) => gg_get_arm.value = ""
           /\ (gg_stop >= cs /\ gg_start <= ce) => gg_get_arm.value = ""
           /\ (cs = 100 /\ ce = 200 /\ ~short) =>
                 /\ (gg_start = 0 /\ gg_stop = 50) => gg_get_arm.value = ArmOf("p")
                 /\ (gg_start = 250 /\ gg_stop = 300) => gg_get_arm.value = ArmOf("q")
                 /\ (gg_start = 150 /\ gg_stop = 160) => gg_get_arm.value = ""

\* C16's case: centromere (100,200), no short arm, and [0,50] was classified
\* as the p arm of chr1
C16_Witness ==
    /\ gg_contig = "chr1"
    /\ Cardinality(RecordsOf("centromere")) = 1
    /\ RecordsOf("short_arm") = {}
    /\ \E i \in RecordsOf("centromere") :
          gg_gaps[i].start = 100 /\ gg_gaps[i].stop = 200
    /\ gg_start = 0
    /\ gg_stop = 50
    /\ gg_get_arm = Returned("p1")

\* C17: GenomeGaps.get_arm and ContigGaps.get_arm called with stop < start
\* raise ValueError for every contig, also one without a centromere record,
\* and return no arm name.
C17_StopBeforeStartRejected ==
    gg_stop < gg_start =>
        /\ Called(gg_get_arm) => gg_get_arm = Raised("ValueError")
        /\ Called(cg_get_arm) => cg_get_arm = Raised("ValueError")

\* C17's case: stop < start on a contig that has no centromere record, and
\* GenomeGaps.get_arm raised ValueError
C17_Witness ==
    /\ gg_stop < gg_start
    /\ RecordsOf("centromere") = {}
    /\ gg_get_arm = Raised("ValueError")

\* the interval of the query overlaps a centromere or telomere record of the
\* contig
InAnyRegion ==
    \E i \in RecordsOf("centromere") \cup RecordsOf("telomere") :
        gg_stop > gg_gaps[i].start /\ gg_start < gg_gaps[i].stop

\* C18: GenomeGaps.in_tcmere returns None when the contig has neither
\* centromere nor telomere records; otherwise, for any number of records of
\* either kind, it does not raise and returns a value that is true exactly
\* when the interval overlaps at least one centromere or telomere region.
C18_InTcmere ==
    Called(gg_in_tcmere) =>
        IF RecordsOf("centromere") = {} /\ RecordsOf("telomere") = {}
        THEN gg_in_tcmere = Returned("None")
        ELSE gg_in_tcmere = Returned(Bool(InAnyRegion))

\* C19: for a contig with one centromere and two telomere records the
\* ContigGaps of get_contig_gaps answers in_tcmere and get_arm as the
\* GenomeGaps does.
C19_ContigGapsAgrees ==
    (/\ Cardinality(RecordsOf("centromere")) = 1
     /\ Cardinality(RecordsOf("telomere")) = 2)
    => /\ Called(cg_in_tcmere) =>
             (cg_in_tcmere.value = "True") = (gg_in_tcmere.value = "True")
       /\ Called(cg_get_arm) => cg_get_arm = gg_get_arm

\* C20: the hg38 factories end in an error; they never return normally.
C20_Hg38NotSupported ==
    /\ Called(gg_hg38) => gg_hg38.raised # ""
    /\ Called(gg_hg38_bed) => gg_hg38_bed.raised # ""

(***************************************************************************)
(* Further properties of delfi, aggregate_wps and wps.                     *)
(***************************************************************************)
\* C26: the total delfi reports as 'fragments included' equals the sum over
\* all bins of the num_frags returned by _delfi_single_window, the short
\* plus the long fragments of every bin.
C26_ReportedTotalIsNumFrags ==
    delfi_pc = "returned" =>
        /\ delfi_num_frags =
              SumSeq([i \in 1..Len(delfi_windows) |-> delfi_windows[i][7]])
        /\ delfi_num_frags =
              SumSeq([i \in 1..Len(delfi_windows) |->
                         delfi_windows[i][4] + delfi_windows[i][5]])

\* C27: for every positive size_around_sites, even or odd, the assertion
\* right_of_site - left_of_site == size_around_sites of aggregate_wps holds,
\* and each per-site region has exactly size_around_sites positions.
C27_AssertionHolds ==
    /\ agg_pc # "AssertionError"
    /\ agg_pc \in {"pool", "returned"} =>
          \A i \in 1..Len(agg_contig_scores) :
              agg_jobs[i] = "done" =>
                  Len(agg_contig_scores[i]) = agg_size_around_sites

\* C28: in every WIG file written by wps or aggregate_wps the span of the
\* fixedStep declaration line equals the number of score lines that follow
\* it: size_around_sites for aggregate_wps, for every window_size.
C28_SpanIsNumberOfScores ==
    (agg_pc = "returned" /\ agg_output_file \in {".wig", ".wig.gz"}) =>
        /\ agg_out.span = Len(agg_out.lines)
        /\ agg_out.span = agg_size_around_sites

\* C29: for each supported suffix delfi writes one header line and one row
\* per bin, in bin order, and every row has as many fields as the header has
\* names.
C29_RowsMatchHeader ==
    (/\ delfi_output_file \in {".bed", ".bed.gz", ".tsv"}
     /\ delfi_pc \notin {"idle", "called", "pool"})
    => /\ delfi_pc = "returned"
       /\ delfi_out.written
       /\ Len(delfi_out.header) = 6
       /\ Len(delfi_out.rows) = Len(delfi_window_args)
       /\ \A i \in 1..Len(delfi_out.rows) :
             /\ Len(delfi_out.rows[i]) = Len(delfi_out.header)
             /\ delfi_out.rows[i][1] = delfi_window_args[i][1]
             /\ delfi_out.rows[i][2] = delfi_window_args[i][2]
             /\ delfi_out.rows[i][3] = delfi_window_args[i][3]

\* C30: delfi called without an output_file completes the per-bin
\* computation and the trimming and returns normally.
C30_NoOutputFileReturns ==
    (/\ delfi_output_file = None
     /\ delfi_pc \notin {"idle", "called", "pool"})
    => delfi_pc = "returned"

\* the fragments of the input file whose length is in the fraction and that
\* count at position p: they span the window of p or end inside it
CountsAt(file, fraction, p, window_size) ==
    {j \in 1..Len(file) :
        /\ file[j][2] - file[j][1] >= fraction[1]
        /\ file[j][2] - file[j][1] <= fraction[2]
        /\ \/ Spanning(<<file[j]>>, WindowStart(p, window_size),
                       WindowStop(p, window_size)) # {}
           \/ EndpointIn(<<file[j]>>, WindowStart(p, window_size),
                         WindowStop(p, window_size)) # {}}

\* C23: for every start, stop, window_size and fraction, every fragment of
\* the fraction that spans the window of some position p of [start, stop), or
\* has its start or stop inside it, overlaps the padded region
\* [start - fraction_high, stop + fraction_high) and so is among the
\* fragments wps fetched.
C23_PaddedRegionHoldsEveryCountingFragment ==
    wps_pc = "returned" =>
        \A p \in wps_start..(wps_stop - 1) :
            \A j \in CountsAt(wps_input, wps_fraction, p, wps_window_size) :
                /\ wps_input[j][2] > wps_start - wps_fraction[2]
                /\ wps_input[j][1] < wps_stop + wps_fraction[2]
                /\ \E i \in 1..Len(wps_frag_ends) :
                      wps_frag_ends[i] = wps_input[j]

(***************************************************************************)
(* frag/frag_length.py: frag_length                                        *)
(***************************************************************************)
\* the default of quality_threshold
FlQualityThreshold == 30

\* what the caller may pass as output_file
FlOutputFiles == {None, ".bin", ".wig", ".txt", "NotAString"}

\* the reads a file may hold: forward and reverse templates, a low-quality
\* read, a read2, on two contigs
FlReads ==
    {<<"chr1", Read(0, 150, FlQualityThreshold, TRUE)>>,
     <<"chr1", Read(0, -120, FlQualityThreshold, TRUE)>>,
     <<"chr2", Read(0, 100, FlQualityThreshold, TRUE)>>,
     <<"chr1", Read(0, 167, FlQualityThreshold - 1, TRUE)>>,
     <<"chr1", Read(0, -150, FlQualityThreshold, FALSE)>>}

Abs(x) == IF x < 0 THEN -x ELSE x

\* sam_file.fetch(contig=contig): every read, or the reads of one contig
FlFetch(file, contig) ==
    SelectSeq(file, LAMBDA line : contig = None \/ line[1] = contig)

\* the loop over the fetched reads: the absolute template length of every
\* read that is a read1 of sufficient quality
FlLengths(file, contig, quality_threshold) ==
    LET fetched  == FlFetch(file, contig)
        accepted == SelectSeq(fetched, LAMBDA line :
                        ~_not_read1_or_low_quality(line[2], quality_threshold))
    IN  [i \in 1..Len(accepted) |-> Abs(accepted[i][2].template_length)]

\* A faulty variant of the output step: every string is written to.
FlOutputStepAnySuffix(output_file) ==
    CASE output_file = "NotAString" -> "TypeError"
      [] output_file = None -> "returned"
      [] OTHER -> "written"

\* the check of output_file: what the step does with each kind of value
FlOutputStep(output_file) ==
    CASE output_file = "NotAString" -> "TypeError"
      [] output_file = None -> "returned"
      [] output_file = ".bin" -> "written"
      [] OTHER -> "ValueError"

FragLength ==
    /\ fl_pc = "called"
    /\ LET lengths == FlLengths(fl_input, fl_contig, FlQualityThreshold)
           step    == FlOutputStep(fl_output_file)
       IN  CASE step = "written" ->
                    /\ fl_out' = [written |-> TRUE, lengths |-> lengths]
                    /\ fl_lengths' = lengths
                    /\ fl_pc' = "returned"
             [] step = "returned" ->
                    /\ fl_lengths' = lengths
                    /\ fl_pc' = "returned"
                    /\ UNCHANGED fl_out
             [] OTHER ->
                    /\ fl_pc' = step
                    /\ UNCHANGED <<fl_lengths, fl_out>>
    /\ UNCHANGED <<fl_input, fl_contig, fl_output_file>>
    /\ UNCHANGED <<wpsVars, aggVars, dwVars, trimVars, delfiVars, motifVars,
                   gapVars, cliVars, scVars, poolVars>>

InitFl ==
    /\ fl_pc = "called"
    /\ fl_input \in SeqsUpTo(FlReads, MaxReads)
    /\ fl_contig \in {None, "chr1"}
    /\ fl_output_file \in FlOutputFiles
    /\ fl_lengths = <<>>
    /\ fl_out = FlNoFile
    /\ WpsIdle
    /\ AggIdle
    /\ DwIdle
    /\ TrimIdle
    /\ DelfiIdle
    /\ MotifIdle
    /\ GapIdle
    /\ CliIdle
    /\ ScIdle
    /\ PoolIdle

NextFl == FragLength

(***************************************************************************)
(* The output_file argument of wps, aggregate_wps and frag_length: the     *)
(* three functions called on small inputs with every kind of output_file.  *)
(***************************************************************************)
MaxOutItems == 1

InitOutputFile ==
    \/ /\ wps_pc = "called"
       /\ wps_input \in SeqsUpTo(Fragments, MaxOutItems)
       /\ wps_start \in 0..MaxCoord
       /\ wps_stop \in 0..MaxCoord
       /\ wps_window_size \in 1..MaxWindow
       /\ wps_fraction \in FractionChoices
       /\ wps_output_file \in OutputFiles
       /\ wps_frag_ends = <<>>
       /\ wps_scores = <<>>
       /\ wps_out = None
       /\ AggIdle /\ DwIdle /\ TrimIdle /\ DelfiIdle /\ MotifIdle /\ GapIdle
       /\ EntryIdle
    \/ /\ agg_pc = "called"
       /\ agg_input \in SeqsUpTo(AggFragments, MaxOutItems)
       /\ agg_site_bed \in SeqsUpTo(Sites, MaxOutItems)
       /\ agg_size_around_sites \in 1..MaxSize
       /\ agg_window_size \in 1..MaxWindow
       /\ agg_fraction \in AggFractionChoices
       /\ agg_workers \in 1..MaxWorkers
       /\ agg_output_file \in OutputFiles
       /\ agg_jobs = <<>>
       /\ agg_contig_scores = <<>>
       /\ agg_done_order = <<>>
       /\ agg_scores = <<>>
       /\ agg_out = None
       /\ WpsIdle /\ DwIdle /\ TrimIdle /\ DelfiIdle /\ MotifIdle /\ GapIdle
       /\ EntryIdle
    \/ InitFl

NextOutputFile == NextWps \/ NextAgg \/ NextFl

SpecOutputFile == InitOutputFile /\ [][NextOutputFile]_vars

\* C21: in wps, aggregate_wps and frag_length, once the call reaches the
\* check of output_file: a string with an unsupported suffix (not .wig or
\* .wig.gz for the WPS functions, not .bin for frag_length) raises ValueError
\* and no file is written; a value that is neither a string nor None raises
\* TypeError; None raises neither and the result is returned.
C21_OutputFileChecked ==
    /\ (wps_pc \notin {"idle", "called"} /\ wps_start <= wps_stop) =>
          /\ wps_output_file = ".txt" =>
                wps_pc = "ValueError" /\ wps_out = None
          /\ wps_output_file = "NotAString" =>
                wps_pc = "TypeError" /\ wps_out = None
          /\ wps_output_file = None =>
                /\ wps_pc = "returned"
                /\ wps_out = None
                /\ wps_scores = WpsReturn(wps_input, wps_start, wps_stop,
                                          wps_window_size, wps_fraction)
    /\ agg_pc \notin {"idle", "called", "pool", "AssertionError"} =>
          /\ agg_output_file = ".txt" =>
                agg_pc = "ValueError" /\ agg_out = None
          /\ agg_output_file = "NotAString" =>
                agg_pc = "TypeError" /\ agg_out = None
          /\ agg_output_file = None =>
                /\ agg_pc = "returned"
                /\ agg_out = None
                /\ Len(agg_scores) = agg_size_around_sites
    /\ fl_pc \notin {"idle", "called"} =>
          /\ fl_output_file \in {".wig", ".txt"} =>
                fl_pc = "ValueError" /\ fl_out = FlNoFile
          /\ fl_output_file = "NotAString" =>
                fl_pc = "TypeError" /\ fl_out = FlNoFile
          /\ fl_output_file = None =>
                /\ fl_pc = "returned"
                /\ fl_out = FlNoFile
                /\ fl_lengths = FlLengths(fl_input, fl_contig,
                                          FlQualityThreshold)
          /\ fl_output_file = ".bin" =>
                fl_pc = "returned" /\ fl_out.written

\* C21's case: frag_length was given a .wig path, which it does not write,
\* on a file with reads, and raised ValueError leaving no file
C21_Witness ==
    /\ fl_pc = "ValueError"
    /\ fl_output_file = ".wig"
    /\ fl_input # <<>>
    /\ fl_out = FlNoFile

(***************************************************************************)
(* cli/main_cli.py: main_cli, for the subcommands whose component function *)
(* is part of the sources (frag-length, delfi) and for no subcommand       *)
(***************************************************************************)
Subcommands == {None, "frag-length", "delfi"}

\* the positional arguments each subparser declares
Positionals(subcommand) ==
    CASE subcommand = "frag-length" -> {"input_file"}
      [] subcommand = "delfi" -> {"input_file", "autosomes", "reference_file"}
      [] OTHER -> {}

\* the destinations of the optional flags each subparser declares
Optionals(subcommand) ==
    CASE subcommand = "frag-length" ->
             {"contig", "output_file", "workers", "quality_threshold",
              "verbose"}
      [] subcommand = "delfi" ->
             {"blacklist_file", "centromere_file", "output_file",
              "window_size", "quality_threshold", "gc_correction", "workers",
              "verbose"}
      [] OTHER -> {}

\* set_defaults(func=...) of each subparser
FuncOf(subcommand) ==
    CASE subcommand = "frag-length" -> "frag_length"
      [] subcommand = "delfi" -> "delfi"
      [] OTHER -> None

\* the parameters in the signature of each component function
Parameters(function) ==
    CASE function = "frag_length" ->
             {"input_file", "contig", "output_file", "workers",
              "quality_threshold", "verbose"}
      [] function = "delfi" ->
             {"input_file", "autosomes", "reference_file", "blacklist_file",
              "centromere_file", "output_file", "window_size",
              "subsample_coverage", "quality_threshold", "workers",
              "preprocessing", "verbose"}
      [] OTHER -> {}

\* the parameters of each component function that have no default
Required(function) ==
    CASE function = "frag_length" -> {"input_file"}
      [] function = "delfi" -> {"input_file", "autosomes", "reference_file"}
      [] OTHER -> {}

\* parser.parse_args(): every destination of the chosen subparser is in the
\* namespace, with the value given or its default, next to 'subcommand' and
\* the 'func' the subparser sets
ParseArgsNamespace(subcommand, flags) ==
    {<<"subcommand", subcommand>>}
    \cup (IF subcommand = None THEN {} ELSE {<<"func", FuncOf(subcommand)>>})
    \cup {<<d, "given">> : d \in Positionals(subcommand)}
    \cup {<<d, IF d \in flags THEN "given" ELSE "default">> :
             d \in Optionals(subcommand)}

Names(namespace) == {pair[1] : pair \in namespace}

\* funcargs.pop('func'); funcargs.pop('subcommand')
PopDispatchFields(namespace) ==
    {pair \in namespace : pair[1] \notin {"func", "subcommand"}}

ParseArgs ==
    /\ cli_pc = "start"
    /\ cli_args' = ParseArgsNamespace(cli_subcommand, cli_flags)
    /\ cli_pc' = "parsed"
    /\ UNCHANGED <<cli_subcommand, cli_flags, cli_function, cli_funcargs>>
    /\ UNCHANGED <<wpsVars, aggVars, dwVars, trimVars, delfiVars, motifVars,
                   gapVars, flVars, scVars, poolVars>>

Dispatch ==
    /\ cli_pc = "parsed"
    /\ IF "func" \notin Names(cli_args)
       THEN \* function = args.func
            /\ cli_pc' = "AttributeError"
            /\ UNCHANGED <<cli_function, cli_funcargs>>
       ELSE LET function == (CHOOSE pair \in cli_args : pair[1] = "func")[2]
                funcargs == PopDispatchFields(cli_args)
            IN  /\ cli_funcargs' = funcargs
                /\ IF /\ Names(funcargs) \subseteq Parameters(function)
                      /\ Required(function) \subseteq Names(funcargs)
                   THEN /\ cli_function' = function
                        /\ cli_pc' = "called"
                   ELSE \* function(**funcargs): unexpected keyword argument
                        /\ cli_pc' = "TypeError"
                        /\ UNCHANGED cli_function
    /\ UNCHANGED <<cli_subcommand, cli_flags, cli_args>>
    /\ UNCHANGED <<wpsVars, aggVars, dwVars, trimVars, delfiVars, motifVars,
                   gapVars, flVars, scVars, poolVars>>

InitCli ==
    /\ cli_pc = "start"
    /\ cli_subcommand \in Subcommands
    /\ cli_flags \in SUBSET Optionals(cli_subcommand)
    /\ cli_args = {}
    /\ cli_function = None
    /\ cli_funcargs = {}
    /\ WpsIdle /\ AggIdle /\ DwIdle /\ TrimIdle /\ DelfiIdle /\ MotifIdle
    /\ GapIdle /\ FlIdle /\ ScIdle /\ PoolIdle

NextCli == ParseArgs \/ Dispatch

SpecCli == InitCli /\ [][NextCli]_vars

\* C22: for every subcommand and every combination of its flags, main_cli
\* calls exactly one component function, with keyword arguments equal to the
\* parsed options minus 'func' and 'subcommand', every keyword being a
\* parameter of the called function: delfi with or without -gc reaches delfi
\* without an argument mismatch, and no subcommand does not fail in the
\* dispatch step.
C22_DispatchReachesComponent ==
    cli_pc \notin {"idle", "start", "parsed"} =>
        /\ cli_pc \notin {"TypeError", "AttributeError"}
        /\ cli_subcommand # None =>
              /\ cli_pc = "called"
              /\ cli_function = FuncOf(cli_subcommand)
              /\ cli_funcargs = {pair \in cli_args :
                                    pair[1] \notin {"func", "subcommand"}}
              /\ Names(cli_funcargs) \subseteq Parameters(cli_function)

(***************************************************************************)
(* frag/__init__.py: _agg_wps_single_contig, the job that scores the sites *)
(* of one contig from a temporary fragment BED.  One step of the job may   *)
(* raise: the creation of the temporary file, frag_bam_to_bed, or the      *)
(* first call of wps.                                                      *)
(***************************************************************************)
ScFailures == {"none", "mkstemp", "frag_bam_to_bed", "wps"}

\* the path tf.mkstemp returns
TempFragBed == "tmp.bed.gz"

\* a local variable holding value
Bound(value) == [bound |-> TRUE, value |-> value]

\* _, frag_bed = tf.mkstemp(suffix='.bed.gz', text=True)
ScMkstemp ==
    /\ sc_pc = "called"
    /\ IF sc_fails = "mkstemp"
       THEN /\ sc_error' = "OSError"
            /\ sc_pc' = "except"
            /\ UNCHANGED <<sc_frag_bed, sc_files>>
       ELSE /\ sc_frag_bed' = TempFragBed
            /\ sc_files' = sc_files \cup {TempFragBed}
            /\ sc_pc' = "frag_bam_to_bed"
            /\ UNCHANGED sc_error
    /\ UNCHANGED <<sc_fails, sc_size_around_sites, sc_sites, sc_i,
                   sc_unaggregated, sc_scores, sc_caught>>
    /\ UNCHANGED <<wpsVars, aggVars, dwVars, trimVars, delfiVars, motifVars,
                   gapVars, flVars, cliVars, poolVars>>

\* frag_bam_to_bed(input_file, frag_bed, ...)
ScFragBamToBed ==
    /\ sc_pc = "frag_bam_to_bed"
    /\ IF sc_fails = "frag_bam_to_bed"
       THEN /\ sc_error' = "OSError"
            /\ sc_pc' = "except"
       ELSE /\ sc_pc' = "zeros"
            /\ UNCHANGED sc_error
    /\ UNCHANGED <<sc_fails, sc_size_around_sites, sc_sites, sc_i,
                   sc_frag_bed, sc_files, sc_unaggregated, sc_scores,
                   sc_caught>>
    /\ UNCHANGED <<wpsVars, aggVars, dwVars, trimVars, delfiVars, motifVars,
                   gapVars, flVars, cliVars, poolVars>>

\* scores = np.zeros(...); the assertion on left_of_site and right_of_site;
\* unaggregated_scores = []
ScZeros ==
    /\ sc_pc = "zeros"
    /\ sc_scores' = Bound(<<>>)
    /\ IF RightOfSite(sc_size_around_sites) - LeftOfSite(sc_size_around_sites)
            # sc_size_around_sites
       THEN /\ sc_error' = "AssertionError"
            /\ sc_pc' = "except"
            /\ UNCHANGED sc_i
       ELSE /\ sc_i' = 1
            /\ sc_pc' = "sites"
            /\ UNCHANGED sc_error
    /\ UNCHANGED <<sc_fails, sc_size_around_sites, sc_sites, sc_frag_bed,
                   sc_files, sc_unaggregated, sc_caught>>
    /\ UNCHANGED <<wpsVars, aggVars, dwVars, trimVars, delfiVars, motifVars,
                   gapVars, flVars, cliVars, poolVars>>

\* one line of site_bed: skipped when its strand holds '.', else scored by
\* wps and appended, flipped for '-'
ScSite ==
    /\ sc_pc = "sites"
    /\ sc_i <= Len(sc_sites)
    /\ IF sc_sites[sc_i] = "."
       THEN /\ sc_i' = sc_i + 1
            /\ UNCHANGED <<sc_pc, sc_unaggregated, sc_error>>
       ELSE IF sc_fails = "wps"
            THEN /\ sc_error' = "OSError"
                 /\ sc_pc' = "except"
                 /\ UNCHANGED <<sc_i, sc_unaggregated>>
            ELSE /\ sc_unaggregated' =
                        Append(sc_unaggregated,
                               [site |-> sc_i, flipped |-> sc_sites[sc_i] = "-"])
                 /\ sc_i' = sc_i + 1
                 /\ UNCHANGED <<sc_pc, sc_error>>
    /\ UNCHANGED <<sc_fails, sc_size_around_sites, sc_sites, sc_frag_bed,
                   sc_files, sc_scores, sc_caught>>
    /\ UNCHANGED <<wpsVars, aggVars, dwVars, trimVars, delfiVars, motifVars,
                   gapVars, flVars, cliVars, poolVars>>

\* scores[:, 1] = np.sum(unaggregated_scores, axis=0)
ScSum ==
    /\ sc_pc = "sites"
    /\ sc_i > Len(sc_sites)
    /\ sc_scores' = Bound(sc_unaggregated)
    /\ sc_pc' = "finally"
    /\ UNCHANGED <<sc_fails, sc_size_around_sites, sc_sites, sc_i,
                   sc_frag_bed, sc_files, sc_unaggregated, sc_error,
                   sc_caught>>
    /\ UNCHANGED <<wpsVars, aggVars, dwVars, trimVars, delfiVars, motifVars,
                   gapVars, flVars, cliVars, poolVars>>

\* except Exception as e: print(e)
ScExcept ==
    /\ sc_pc = "except"
    /\ sc_caught' = sc_error
    /\ sc_error' = "none"
    /\ sc_pc' = "finally"
    /\ UNCHANGED <<sc_fails, sc_size_around_sites, sc_sites, sc_i,
                   sc_frag_bed, sc_files, sc_unaggregated, sc_scores>>
    /\ UNCHANGED <<wpsVars, aggVars, dwVars, trimVars, delfiVars, motifVars,
                   gapVars, flVars, cliVars, poolVars>>

\* finally: os.remove(frag_bed)
ScFinally ==
    /\ sc_pc = "finally"
    /\ IF sc_frag_bed = "unbound"
       THEN /\ sc_error' = "UnboundLocalError"
            /\ sc_pc' = "raised"
            /\ UNCHANGED sc_files
       ELSE /\ sc_files' = sc_files \ {sc_frag_bed}
            /\ sc_pc' = "return"
            /\ UNCHANGED sc_error
    /\ UNCHANGED <<sc_fails, sc_size_around_sites, sc_sites, sc_i,
                   sc_frag_bed, sc_unaggregated, sc_scores, sc_caught>>
    /\ UNCHANGED <<wpsVars, aggVars, dwVars, trimVars, delfiVars, motifVars,
                   gapVars, flVars, cliVars, poolVars>>

\* return scores
ScReturn ==
    /\ sc_pc = "return"
    /\ IF sc_scores.bound
       THEN /\ sc_pc' = "returned"
            /\ UNCHANGED sc_error
       ELSE /\ sc_error' = "UnboundLocalError"
            /\ sc_pc' = "raised"
    /\ UNCHANGED <<sc_fails, sc_size_around_sites, sc_sites, sc_i,
                   sc_frag_bed, sc_files, sc_unaggregated, sc_scores,
                   sc_caught>>
    /\ UNCHANGED <<wpsVars, aggVars, dwVars, trimVars, delfiVars, motifVars,
                   gapVars, flVars, cliVars, poolVars>>

InitSc ==
    /\ sc_pc = "called"
    /\ sc_fails \in ScFailures
    /\ sc_size_around_sites \in 1..MaxSize
    /\ sc_sites \in SeqsUpTo(Strands, MaxSites)
    /\ sc_i = 0
    /\ sc_frag_bed = "unbound"
    /\ sc_files = {}
    /\ sc_unaggregated = <<>>
    /\ sc_scores = Unbound
    /\ sc_error = "none"
    /\ sc_caught = "none"
    /\ WpsIdle /\ AggIdle /\ DwIdle /\ TrimIdle /\ DelfiIdle /\ MotifIdle
    /\ GapIdle /\ FlIdle /\ CliIdle /\ PoolIdle

NextSc ==
    \/ ScMkstemp
    \/ ScFragBamToBed
    \/ ScZeros
    \/ ScSite
    \/ ScSum
    \/ ScExcept
    \/ ScFinally
    \/ ScReturn

SpecSc == InitSc /\ [][NextSc]_vars

\* C24: on every exit path of _agg_wps_single_contig every temporary
\* fragment BED that was created has been deleted, the cleanup step does not
\* raise because the file was never created, and an error inside the job is
\* not turned into a normal return.
C24_CleanupOnEveryExit ==
    sc_pc \in {"returned", "raised"} =>
        /\ sc_files = {}
        /\ sc_frag_bed = "unbound" => sc_error # "UnboundLocalError"
        /\ sc_caught # "none" => sc_pc = "raised"

(***************************************************************************)
(* The worker pools of delfi, aggregate_wps and end_motifs when region     *)
(* tasks may raise.  delfi and aggregate_wps run pool.starmap inside       *)
(* 'with Pool(workers) as pool'; end_motifs iterates pool.imap inside      *)
(* try ... finally: pool.close().                                          *)
(***************************************************************************)
MaxTasks == 3

PoolSites == {"delfi", "aggregate_wps", "end_motifs"}

\* starmap's default chunksize: divmod(len(iterable), len(pool) * 4), plus
\* one when there is a remainder
StarmapChunkSize(tasks, workers) ==
    IF tasks % (workers * 4) # 0
    THEN (tasks \div (workers * 4)) + 1
    ELSE tasks \div (workers * 4)

\* the chunksize each call site ends up with
PoolChunkSize(site, tasks, workers) ==
    IF site = "end_motifs"
    THEN ChunkSize([i \in 1..tasks |-> i], workers)
    ELSE StarmapChunkSize(tasks, workers)

\* the tasks of job c
TasksOf(c, site, tasks, workers) ==
    {i \in 1..tasks : ChunkOf(i, PoolChunkSize(site, tasks, workers)) = c}

PoolRunning == {c \in 1..Len(pool_jobs) : pool_jobs[c] = "running"}

PoolFinished == {c \in 1..Len(pool_jobs) : pool_jobs[c] \in {"done", "raised"}}

\* some job has already raised
PoolFailed == \E c \in 1..Len(pool_jobs) : pool_jobs[c] = "raised"

\* the tasks are cut into chunks and queued
PoolSubmit ==
    /\ pool_pc = "called"
    /\ pool_jobs' = [c \in 1..ChunkOf(pool_tasks,
                                      PoolChunkSize(pool_site, pool_tasks,
                                                    pool_workers)) |->
                        "queued"]
    /\ pool_pc' = "pool"
    /\ UNCHANGED <<pool_site, pool_tasks, pool_fails, pool_workers, pool_error,
                   pool_consumed, pool_late, pool_result, pool_out>>
    /\ UNCHANGED <<wpsVars, aggVars, dwVars, trimVars, delfiVars, motifVars,
                   gapVars, flVars, cliVars, scVars>>

\* the workers are alive: the call is waiting for the pool, or end_motifs
\* has raised and left its pool closed but not terminated
PoolAlive ==
    \/ pool_pc = "pool"
    \/ pool_pc = "raised" /\ pool_site = "end_motifs"

\* a free worker takes the next job of the queue
PoolJobStart ==
    /\ PoolAlive
    /\ Cardinality(PoolRunning) < pool_workers
    /\ \E c \in 1..Len(pool_jobs) :
          /\ pool_jobs[c] = "queued"
          /\ \A j \in 1..(c - 1) : pool_jobs[j] # "queued"
          /\ pool_jobs' = [pool_jobs EXCEPT ![c] = "running"]
          /\ pool_late' = IF PoolFailed THEN pool_late \cup {c} ELSE pool_late
    /\ UNCHANGED <<pool_pc, pool_site, pool_tasks, pool_fails, pool_workers,
                   pool_error, pool_consumed, pool_result, pool_out>>
    /\ UNCHANGED <<wpsVars, aggVars, dwVars, trimVars, delfiVars, motifVars,
                   gapVars, flVars, cliVars, scVars>>

\* a running job ends: it raises when one of its tasks raises.  starmap
\* keeps the first exception it is handed.
PoolJobDone ==
    /\ PoolAlive
    /\ \E c \in PoolRunning :
          LET raises == TasksOf(c, pool_site, pool_tasks, pool_workers)
                            \cap pool_fails # {}
          IN  /\ pool_jobs' = [pool_jobs EXCEPT
                                  ![c] = IF raises THEN "raised" ELSE "done"]
              /\ pool_late' = IF PoolFailed THEN pool_late \cup {c}
                              ELSE pool_late
              /\ pool_error' = IF /\ raises
                                  /\ pool_site # "end_motifs"
                                  /\ pool_error = 0
                               THEN c ELSE pool_error
    /\ UNCHANGED <<pool_pc, pool_site, pool_tasks, pool_fails, pool_workers,
                   pool_consumed, pool_result, pool_out>>
    /\ UNCHANGED <<wpsVars, aggVars, dwVars, trimVars, delfiVars, motifVars,
                   gapVars, flVars, cliVars, scVars>>

\* starmap raises the exception it kept: as soon as a job has raised or,
\* depending on the release of the interpreter, only once every job has
\* ended.  Leaving the with block terminates the pool.
StarmapRaise ==
    /\ pool_pc = "pool"
    /\ pool_site # "end_motifs"
    /\ pool_error # 0
    /\ pool_jobs' = [c \in 1..Len(pool_jobs) |->
                        IF pool_jobs[c] \in {"queued", "running"}
                        THEN "terminated" ELSE pool_jobs[c]]
    /\ pool_pc' = "raised"
    /\ UNCHANGED <<pool_site, pool_tasks, pool_fails, pool_workers, pool_error,
                   pool_consumed, pool_late, pool_result, pool_out>>
    /\ UNCHANGED <<wpsVars, aggVars, dwVars, trimVars, delfiVars, motifVars,
                   gapVars, flVars, cliVars, scVars>>

\* starmap returns the list of results: the caller reduces it, writes its
\* output and returns
StarmapReturn ==
    /\ pool_pc = "pool"
    /\ pool_site # "end_motifs"
    /\ \A c \in 1..Len(pool_jobs) : pool_jobs[c] = "done"
    /\ pool_result' = "complete"
    /\ pool_out' = TRUE
    /\ pool_pc' = "returned"
    /\ UNCHANGED <<pool_site, pool_tasks, pool_fails, pool_workers, pool_jobs,
                   pool_error, pool_consumed, pool_late>>
    /\ UNCHANGED <<wpsVars, aggVars, dwVars, trimVars, delfiVars, motifVars,
                   gapVars, flVars, cliVars, scVars>>

\* end_motifs takes the next job's results from the imap iterator, in job
\* order: the job's exception is raised at that point and the finally
\* clause closes the pool
ImapNext ==
    /\ pool_pc = "pool"
    /\ pool_site = "end_motifs"
    /\ pool_consumed < Len(pool_jobs)
    /\ pool_jobs[pool_consumed + 1] \in {"done", "raised"}
    /\ IF pool_jobs[pool_consumed + 1] = "done"
       THEN /\ pool_consumed' = pool_consumed + 1
            /\ UNCHANGED <<pool_pc, pool_error>>
       ELSE /\ pool_error' = pool_consumed + 1
            /\ pool_pc' = "raised"
            /\ UNCHANGED pool_consumed
    /\ UNCHANGED <<pool_site, pool_tasks, pool_fails, pool_workers, pool_jobs,
                   pool_late, pool_result, pool_out>>
    /\ UNCHANGED <<wpsVars, aggVars, dwVars, trimVars, delfiVars, motifVars,
                   gapVars, flVars, cliVars, scVars>>

\* the iterator is exhausted: end_motifs closes the pool and returns the
\* frequencies; it writes no file
ImapReturn ==
    /\ pool_pc = "pool"
    /\ pool_site = "end_motifs"
    /\ pool_consumed = Len(pool_jobs)
    /\ pool_result' = "complete"
    /\ pool_pc' = "returned"
    /\ UNCHANGED <<pool_site, pool_tasks, pool_fails, pool_workers, pool_jobs,
                   pool_error, pool_consumed, pool_late, pool_out>>
    /\ UNCHANGED <<wpsVars, aggVars, dwVars, trimVars, delfiVars, motifVars,
                   gapVars, flVars, cliVars, scVars>>

InitPool ==
    /\ pool_pc = "called"
    /\ pool_site \in PoolSites
    /\ pool_tasks \in 1..MaxTasks
    /\ pool_fails \in SUBSET (1..pool_tasks)
    /\ pool_workers \in 1..MaxWorkers
    /\ pool_jobs = <<>>
    /\ pool_error = 0
    /\ pool_consumed = 0
    /\ pool_late = {}
    /\ pool_result = "none"
    /\ pool_out = FALSE
    /\ WpsIdle /\ AggIdle /\ DwIdle /\ TrimIdle /\ DelfiIdle /\ MotifIdle
    /\ GapIdle /\ FlIdle /\ CliIdle /\ ScIdle

NextPool ==
    \/ PoolSubmit
    \/ PoolJobStart
    \/ PoolJobDone
    \/ StarmapRaise
    \/ StarmapReturn
    \/ ImapNext
    \/ ImapReturn

SpecPool == InitPool /\ [][NextPool]_vars

\* C25: in delfi, end_motifs and aggregate_wps, if a region job of the pool
\* raises, the whole call fails with that error, returns no partial result
\* and writes no output file, and the remaining jobs of the pool are aborted
\* rather than left running to completion.
C25_FailureAbortsThePool ==
    /\ pool_pc = "returned" => ~PoolFailed
    /\ pool_pc = "raised" =>
          /\ pool_error \in 1..Len(pool_jobs)
          /\ pool_jobs[pool_error] = "raised"
          /\ pool_result = "none"
          /\ ~pool_out
          /\ pool_late = {}
          /\ \A c \in 1..Len(pool_jobs) :
                pool_jobs[c] \notin {"queued", "running"}

====
